---- MODULE Spec2Model ----
(***************************************************************************)
(* Model of warthunder_haptics_gui: the Coordinator (application.rs), the  *)
(* Telemetry Poller (war_thunder_connector.rs), the Device Session Manager *)
(* (buttplug_connector.rs) and the bounded channels main.rs creates        *)
(* between them.                                                           *)
(*                                                                         *)
(* Spec is the program as main.rs wires it: the Coordinator holds one      *)
(* command sender, the one of the poller's channel.  SessionSpec runs      *)
(* run_buttplug_service_loop against every sequence of commands on its own *)
(* receiver and every sequence of backend events, with the Coordinator     *)
(* draining the update channel.  The further specifications (MirrorSpec,   *)
(* PollerSpec, WorkersSpec, RuleSpec, ConfigSpec, DeviceListSpec,          *)
(* ActionSpec, ShutdownSpec) run parts of the program and are introduced   *)
(* where they are defined.                                                 *)
(***************************************************************************)
EXTENDS Integers, Sequences, FiniteSets, TLC

(***************************************************************************)
(* Bounds of the model.                                                    *)
(***************************************************************************)
\* Backend-assigned device indices are 0..MaxBackendIndex.
MaxBackendIndex == 1
\* Capacity given to the two command channels (mpsc::channel(10) in main.rs).
MaxCommandQueue == 1
\* Capacity given to the update channel (mpsc::channel(100) in main.rs).
MaxUpdateQueue == 2

(***************************************************************************)
(* Option<T>: None is the empty sequence, Some(x) the one-element one.     *)
(***************************************************************************)
None == <<>>
Some(x) == <<x>>
IsSome(o) == o # <<>>
Unwrap(o) == o[1]

(***************************************************************************)
(* Device handles (Arc<ButtplugClientDevice>).  A handle carries the       *)
(* backend-assigned index, the hardware address and the scalar-command     *)
(* attributes (message_attributes().scalar_cmd()), an Option of a list of  *)
(* features, each with its feature index and actuator type.                *)
(***************************************************************************)
Feature(i, t) == [index |-> i, actuator_type |-> t]

Addresses == {"addrA", "addrB", "addrC"}

\* The attributes the hardware at an address reports: a device with two
\* vibrators behind a rotator, one with a rotator only, one with no scalar
\* command at all.
ScalarCmdOf(address) ==
    CASE address = "addrA" ->
            Some(<<Feature(0, "Rotate"), Feature(1, "Vibrate"), Feature(2, "Vibrate")>>)
      [] address = "addrB" -> Some(<<Feature(0, "Rotate")>>)
      [] OTHER -> None

BackendIndices == 0..MaxBackendIndex

DeviceHandle(i, a) == [index |-> i, address |-> a, scalar_cmd |-> ScalarCmdOf(a)]

DeviceHandles == {DeviceHandle(i, a) : i \in BackendIndices, a \in Addresses}

(***************************************************************************)
(* CommandToAsyncTasks (message_passing.rs).  Intensities are hundredths.  *)
(***************************************************************************)
StartProcessing == [type |-> "StartProcessing"]
StopProcessing == [type |-> "StopProcessing"]
UpdateApplicationSettings(s) == [type |-> "UpdateApplicationSettings", settings |-> s]
VibrateDevice(i, s) == [type |-> "VibrateDevice", device_index |-> i, speed |-> s]
StopDevice(i) == [type |-> "StopDevice", device_index |-> i]
ScanForButtplugDevices == [type |-> "ScanForButtplugDevices"]
DisconnectButtplug == [type |-> "DisconnectButtplug"]

(***************************************************************************)
(* UpdateFromAsyncTasks (message_passing.rs).  The text of a LogMessage or *)
(* ButtplugError is not modelled.                                          *)
(***************************************************************************)
LogMessage == [type |-> "LogMessage"]
WarThunderIndicatorsUpdate(ind) == [type |-> "WarThunderIndicatorsUpdate", indicators |-> ind]
WarThunderConnectionStatus(b) == [type |-> "WarThunderConnectionStatus", is_connected |-> b]
ButtplugConnected == [type |-> "ButtplugConnected"]
ButtplugDisconnected == [type |-> "ButtplugDisconnected"]
ButtplugDeviceFound(d) == [type |-> "ButtplugDeviceFound", device |-> d]
ButtplugDeviceLost(d) == [type |-> "ButtplugDeviceLost", device |-> d]
ButtplugError == [type |-> "ButtplugError"]

VARIABLES
    \* main.rs: the channels
    wt_task_command_channel,   \* queue of (wt_task_command_sender, wt_task_command_receiver)
    bp_task_command_channel,   \* queue of (bp_task_command_sender, bp_task_command_receiver)
    update_channel,            \* queue of (update_sender_async, update_receiver_gui)
    update_receiver_open,      \* FALSE once update_receiver_gui has been dropped
    update_dropped,            \* TRUE once a try_send on the update channel found it full
    \* buttplug_connector.rs: run_buttplug_service_loop
    optional_client,           \* Option of [connected |-> what client.connected() returns]
    connected_devices,         \* the session's device registry
    bp_pc,                     \* where the loop is suspended
    bp_pending_sends,          \* the sends of the current handler that have not run yet
    bp_handled,                \* the command or event the loop took last
    bp_backend_calls,          \* the backend calls made while handling it
    bp_sent,                   \* the sends performed while handling it
    bp_client_before,          \* optional_client when it was taken
    bp_spawned,                \* the spawned backend calls that have not returned yet
                               \* (-1 where the spawned tasks are not followed)
    \* application.rs: WarThunderHapticsApplication
    buttplug_devices,
    selected_device_index,
    is_buttplug_connected,
    settings,
    current_wt_indicators,
    game_state_snapshot,
    is_war_thunder_connected,
    is_processing_enabled,
    app_pc,                    \* "start" before main() has run, "drain" inside
                               \* handle_incoming_updates, "ui" after it
    config_file,               \* settings.toml as load and save find it
    \* war_thunder_connector.rs: run_war_thunder_polling_loop
    polling_interval_milliseconds,
    last_known_health,
    wt_pc,                     \* where the loop is suspended
    wt_pending_sends           \* the sends of the current cycle that have not run yet

channel_vars == <<wt_task_command_channel, bp_task_command_channel, update_channel,
                  update_receiver_open, update_dropped>>
bp_state_vars == <<optional_client, connected_devices, bp_pc, bp_pending_sends>>
bp_trace_vars == <<bp_handled, bp_backend_calls, bp_sent, bp_client_before>>
bp_vars == <<bp_state_vars, bp_trace_vars, bp_spawned>>
app_bp_vars == <<buttplug_devices, selected_device_index, is_buttplug_connected>>
app_wt_vars == <<current_wt_indicators, game_state_snapshot, is_war_thunder_connected>>
app_vars == <<app_bp_vars, app_wt_vars, settings, is_processing_enabled, app_pc, config_file>>
wt_vars == <<polling_interval_milliseconds, last_known_health, wt_pc, wt_pending_sends>>
vars == <<channel_vars, bp_vars, app_vars, wt_vars>>


(***************************************************************************)
(* tokio mpsc channels.                                                    *)
(***************************************************************************)
\* Sender::try_send: the message is queued when there is room and the
\* receiver lives; otherwise it is returned to the caller, who drops it.
TrySendOk(queue, capacity, receiver_open) == receiver_open /\ Len(queue) < capacity

TrySend(queue, capacity, receiver_open, message) ==
    IF TrySendOk(queue, capacity, receiver_open) THEN Append(queue, message) ELSE queue

(***************************************************************************)
(* Device Session Manager: run_buttplug_service_loop.                      *)
(***************************************************************************)
\* One pending `to_gui_sender.send(update).await`; break_on_error tells
\* whether the loop breaks when the send returns Err.
PendingSend(update, break_on_error) == [update |-> update, break_on_error |-> break_on_error]

Sent(update, delivered) == [update |-> update, delivered |-> delivered]

\* A backend call that is awaited is recorded with its result.
ConnectCall(ok) == [call |-> "connect", ok |-> ok]
StartScanningCall(ok) == [call |-> "start_scanning", ok |-> ok]
DisconnectCall == [call |-> "disconnect"]
VibrateCall(device, subcommands) ==
    [call |-> "vibrate", device |-> device, subcommands |-> subcommands]
StopCall(device) == [call |-> "stop", device |-> device]

ScalarSubcommandV3(feature_index, scalar, actuator_type) ==
    [feature_index |-> feature_index, scalar |-> scalar, actuator_type |-> actuator_type]

ClientConnected == IsSome(optional_client) /\ Unwrap(optional_client).connected

\* Mutant of GetDevice: an offset past the end is clamped to the last entry.
GetDevice_Clamped(devices, device_index) ==
    IF devices = <<>> THEN None
    ELSE IF device_index < Len(devices) THEN Some(devices[device_index + 1])
         ELSE Some(devices[Len(devices)])

\* connected_devices.get(device_index): offsets count from 0.
GetDevice(devices, device_index) ==
    IF device_index < Len(devices) THEN Some(devices[device_index + 1]) ELSE None

\* Mutant of VibrateFeatures: the actuator type of a feature is not looked at.
VibrateFeatures_AnyActuator(features, speed) ==
    [k \in 1..Len(features) |-> ScalarSubcommandV3(features[k].index, speed, "Vibrate")]

\* Lines 79-89: one sub-command per feature whose actuator type is Vibrate,
\* in feature order, each at the requested speed.
RECURSIVE VibrateFeatures(_, _)
VibrateFeatures(features, speed) ==
    IF features = <<>> THEN <<>>
    ELSE LET f == Head(features)
             rest == VibrateFeatures(Tail(features), speed)
         IN IF f.actuator_type = "Vibrate"
            THEN <<ScalarSubcommandV3(f.index, speed, "Vibrate")>> \o rest
            ELSE rest

ScalarSubcommands(device, speed) ==
    IF IsSome(device.scalar_cmd)
    THEN VibrateFeatures(Unwrap(device.scalar_cmd), speed)
    ELSE <<>>

\* Mutant of VibrateDeviceCalls: the handler also has the device stopped once
\* the duration is over.
VibrateDeviceCalls_ThenStop(client, devices, device_index, speed) ==
    IF IsSome(client) /\ Unwrap(client).connected /\ IsSome(GetDevice(devices, device_index))
    THEN LET device == Unwrap(GetDevice(devices, device_index))
             subcommands == ScalarSubcommands(device, speed)
         IN IF subcommands # <<>> THEN <<VibrateCall(device, subcommands), StopCall(device)>>
            ELSE <<>>
    ELSE <<>>

\* Lines 66-119: the backend calls a VibrateDevice command makes.
VibrateDeviceCalls(client, devices, device_index, speed) ==
    IF IsSome(client) /\ Unwrap(client).connected /\ IsSome(GetDevice(devices, device_index))
    THEN LET device == Unwrap(GetDevice(devices, device_index))
             subcommands == ScalarSubcommands(device, speed)
         IN IF subcommands # <<>> THEN <<VibrateCall(device, subcommands)>> ELSE <<>>
    ELSE <<>>

\* Mutant of StopDeviceCalls: client.connected() is not asked.
StopDeviceCalls_NoConnectedCheck(client, devices, device_index) ==
    IF IsSome(client) /\ device_index < Len(devices)
    THEN <<StopCall(devices[device_index + 1])>>
    ELSE <<>>

\* Lines 123-144: the backend calls a StopDevice command makes.
StopDeviceCalls(client, devices, device_index) ==
    IF IsSome(client) /\ Unwrap(client).connected /\ IsSome(GetDevice(devices, device_index))
    THEN <<StopCall(Unwrap(GetDevice(devices, device_index)))>>
    ELSE <<>>

HasIndex(devices, index) == \E k \in DOMAIN devices : devices[k].index = index

\* Mutant of AddDevice: the handle is pushed without looking for its index.
AddDevice_NoDedup(devices, device) == Append(devices, device)

\* Lines 178-185: DeviceAdded pushes the handle unless its index is known.
AddDevice(devices, device) ==
    IF ~HasIndex(devices, device.index) THEN Append(devices, device) ELSE devices

\* Lines 190-197: retain the entries whose index differs.
RetainOtherIndex(devices, index) ==
    SelectSeq(devices, LAMBDA d : d.index # index)

\* Lines 189-197: the last entry the retain closure matched.
RECURSIVE LastWithIndex(_, _)
LastWithIndex(devices, index) ==
    IF devices = <<>> THEN None
    ELSE LET rest == LastWithIndex(Tail(devices), index)
         IN IF IsSome(rest) THEN rest
            ELSE IF Head(devices).index = index THEN Some(Head(devices)) ELSE None

BpAtSelect == bp_pc = "select" /\ bp_pending_sends = <<>>

\* Every sender of the session's command channel has been dropped: the
\* channel keeps the commands it holds and ends after them.  The end is the
\* last entry of the queue.
SendersDropped == [type |-> "SendersDropped"]

\* from_gui_receiver.recv() returns None: the channel is closed and empty.
BpRecvNone == bp_task_command_channel = <<SendersDropped>>

\* Line 26: recv() returns Some(command).
BpCommandReady == BpAtSelect /\ bp_task_command_channel # <<>> /\ ~BpRecvNone

\* Taking the command off the receiver starts a fresh record of the handler.
BpTake(command) ==
    /\ bp_task_command_channel' = Tail(bp_task_command_channel)
    /\ bp_handled' = command
    /\ bp_client_before' = optional_client
    /\ UNCHANGED <<wt_task_command_channel, update_channel, update_receiver_open, update_dropped>>

\* Mutant of ScanStage: a scan that is started empties the registry.
ScanStage_FreshRegistry(calls) ==
    IF IsSome(optional_client)
    THEN IF Unwrap(optional_client).connected
         THEN \E scan_ok \in BOOLEAN :
                /\ bp_backend_calls' = Append(calls, StartScanningCall(scan_ok))
                /\ bp_pending_sends' =
                      IF scan_ok THEN <<PendingSend(LogMessage, FALSE)>>
                      ELSE <<PendingSend(ButtplugError, FALSE)>>
                /\ connected_devices' = <<>>
                /\ UNCHANGED optional_client
         ELSE /\ optional_client' = None
              /\ bp_pending_sends' = <<PendingSend(ButtplugDisconnected, FALSE)>>
              /\ bp_backend_calls' = calls
              /\ UNCHANGED connected_devices
    ELSE /\ bp_pending_sends' = <<>>
         /\ bp_backend_calls' = calls
         /\ UNCHANGED <<optional_client, connected_devices>>

\* Lines 48-62: the scan stage of ScanForButtplugDevices.
ScanStage(calls) ==
    IF IsSome(optional_client)
    THEN IF Unwrap(optional_client).connected
         THEN \E scan_ok \in BOOLEAN :
                /\ bp_backend_calls' = Append(calls, StartScanningCall(scan_ok))
                /\ bp_pending_sends' =
                      IF scan_ok THEN <<PendingSend(LogMessage, FALSE)>>
                      ELSE <<PendingSend(ButtplugError, FALSE)>>
                /\ UNCHANGED <<optional_client, connected_devices>>
         ELSE /\ optional_client' = None
              /\ bp_pending_sends' = <<PendingSend(ButtplugDisconnected, FALSE)>>
              /\ bp_backend_calls' = calls
              /\ UNCHANGED connected_devices
    ELSE /\ bp_pending_sends' = <<>>
         /\ bp_backend_calls' = calls
         /\ UNCHANGED <<optional_client, connected_devices>>

\* Lines 28-32: ScanForButtplugDevices.  Without a client the loop awaits
\* new_client.connect(); with one it goes straight to the scan stage.
BpScanForButtplugDevices ==
    /\ BpCommandReady
    /\ Head(bp_task_command_channel).type = "ScanForButtplugDevices"
    /\ BpTake(Head(bp_task_command_channel))
    /\ bp_sent' = <<>>
    /\ IF optional_client = None
       THEN /\ bp_pc' = "connecting"
            /\ bp_backend_calls' = <<>>
            /\ UNCHANGED <<optional_client, connected_devices, bp_pending_sends>>
       ELSE /\ bp_pc' = "select"
            /\ ScanStage(<<>>)
    /\ UNCHANGED <<app_vars, wt_vars>>
    /\ UNCHANGED bp_spawned

\* Mutant of ConnectOutcome: a successful attempt is not announced.
ConnectOutcome_Unannounced(connect_ok) ==
    /\ bp_backend_calls' = <<ConnectCall(connect_ok)>>
    /\ IF connect_ok
       THEN /\ optional_client' = Some([connected |-> TRUE])
            /\ bp_pending_sends' = <<PendingSend(LogMessage, FALSE)>>
            /\ bp_pc' = "scan_stage"
       ELSE /\ optional_client' = None
            /\ bp_pending_sends' = <<PendingSend(ButtplugError, FALSE),
                                     PendingSend(ButtplugDisconnected, FALSE)>>
            /\ bp_pc' = "select"
    /\ UNCHANGED bp_spawned

\* Mutant of ConnectOutcome: a failed attempt is repeated at once.
ConnectOutcome_Retry(connect_ok) ==
    /\ bp_backend_calls' = <<ConnectCall(connect_ok)>>
    /\ IF connect_ok
       THEN /\ optional_client' = Some([connected |-> TRUE])
            /\ bp_pending_sends' = <<PendingSend(ButtplugConnected, FALSE),
                                     PendingSend(LogMessage, FALSE)>>
            /\ bp_pc' = "scan_stage"
       ELSE /\ optional_client' = None
            /\ bp_pending_sends' = <<>>
            /\ bp_pc' = "connecting"
    /\ UNCHANGED bp_spawned

\* Mutant of ConnectOutcome: the client of a failed attempt is kept.
ConnectOutcome_KeepsClient(connect_ok) ==
    /\ bp_backend_calls' = <<ConnectCall(connect_ok)>>
    /\ optional_client' = Some([connected |-> connect_ok])
    /\ IF connect_ok
       THEN /\ bp_pending_sends' = <<PendingSend(ButtplugConnected, FALSE),
                                     PendingSend(LogMessage, FALSE)>>
            /\ bp_pc' = "scan_stage"
       ELSE /\ bp_pending_sends' = <<PendingSend(ButtplugError, FALSE),
                                     PendingSend(ButtplugDisconnected, FALSE)>>
            /\ bp_pc' = "select"
    /\ UNCHANGED bp_spawned

\* Lines 32-45: the outcome of the connection attempt.
ConnectOutcome(connect_ok) ==
    /\ bp_backend_calls' = <<ConnectCall(connect_ok)>>
    /\ IF connect_ok
       THEN /\ optional_client' = Some([connected |-> TRUE])
            /\ bp_pending_sends' = <<PendingSend(ButtplugConnected, FALSE),
                                     PendingSend(LogMessage, FALSE)>>
            /\ bp_pc' = "scan_stage"
       ELSE /\ optional_client' = None
            /\ bp_pending_sends' = <<PendingSend(ButtplugError, FALSE),
                                     PendingSend(ButtplugDisconnected, FALSE)>>
            /\ bp_pc' = "select"
    /\ UNCHANGED bp_spawned

BpConnectResult ==
    /\ bp_pc = "connecting"
    /\ \E connect_ok \in BOOLEAN : ConnectOutcome(connect_ok)
    /\ UNCHANGED <<connected_devices, bp_handled, bp_sent, bp_client_before,
                   channel_vars, app_vars, wt_vars>>

BpScanStage ==
    /\ bp_pc = "scan_stage"
    /\ bp_pending_sends = <<>>
    /\ bp_pc' = "select"
    /\ ScanStage(bp_backend_calls)
    /\ UNCHANGED <<bp_handled, bp_sent, bp_client_before, channel_vars, app_vars, wt_vars>>
    /\ UNCHANGED bp_spawned

\* The spawned backend calls are counted up to this number.
MaxSpawned == 1

\* tokio::spawn (lines 96-105 and 133-137): each call of the handler is left
\* to a task of its own, which the loop does not wait for.  A specification
\* that does not follow the spawned tasks starts with bp_spawned = -1.
BpSpawn(calls) ==
    IF bp_spawned < 0 THEN UNCHANGED bp_spawned
    ELSE /\ bp_spawned + Len(calls) <= MaxSpawned
         /\ bp_spawned' = bp_spawned + Len(calls)

\* Mutant of BpSpawnedCallReturns: a failed call is reported to the
\* Coordinator.
BpSpawnedCallReturns_Reports ==
    /\ bp_spawned > 0
    /\ bp_spawned' = bp_spawned - 1
    /\ \E call_ok \in BOOLEAN :
          bp_pending_sends' =
              IF call_ok THEN bp_pending_sends
              ELSE Append(bp_pending_sends, PendingSend(ButtplugError, FALSE))
    /\ UNCHANGED <<channel_vars, optional_client, connected_devices, bp_pc, bp_trace_vars,
                   app_vars, wt_vars>>

\* Lines 97-104 and 134-136: the call of a spawned task returns; an error is
\* written to the log of the process and nothing else happens.
BpSpawnedCallReturns ==
    /\ bp_spawned > 0
    /\ \E call_ok \in BOOLEAN : bp_spawned' = bp_spawned - 1
    /\ UNCHANGED <<channel_vars, bp_state_vars, bp_trace_vars, app_vars, wt_vars>>

\* Lines 65-120.
BpVibrateDevice ==
    /\ BpCommandReady
    /\ Head(bp_task_command_channel).type = "VibrateDevice"
    /\ BpTake(Head(bp_task_command_channel))
    /\ bp_sent' = <<>>
    /\ bp_backend_calls' =
          VibrateDeviceCalls(optional_client, connected_devices,
                             Head(bp_task_command_channel).device_index,
                             Head(bp_task_command_channel).speed)
    /\ BpSpawn(bp_backend_calls')
    /\ UNCHANGED <<bp_state_vars, app_vars, wt_vars>>

\* Lines 122-145.
BpStopDevice ==
    /\ BpCommandReady
    /\ Head(bp_task_command_channel).type = "StopDevice"
    /\ BpTake(Head(bp_task_command_channel))
    /\ bp_sent' = <<>>
    /\ bp_backend_calls' =
          StopDeviceCalls(optional_client, connected_devices,
                          Head(bp_task_command_channel).device_index)
    /\ BpSpawn(bp_backend_calls')
    /\ UNCHANGED <<bp_state_vars, app_vars, wt_vars>>

\* Lines 148-155: a client that is still connected is disconnected.
DisconnectCalls(client) ==
    IF IsSome(client) /\ Unwrap(client).connected THEN <<DisconnectCall>> ELSE <<>>

\* Lines 148-156: the registry after DisconnectButtplug.
DisconnectRegistry(client, devices) == <<>>

\* Mutant of DisconnectSends: nothing is sent when there was no client.
DisconnectSends_OnlyWithClient(client) ==
    IF IsSome(client)
    THEN <<PendingSend(ButtplugDisconnected, TRUE), PendingSend(LogMessage, FALSE)>>
    ELSE <<>>

\* Lines 157-161: the sends of DisconnectButtplug.
DisconnectSends(client) ==
    <<PendingSend(ButtplugDisconnected, TRUE), PendingSend(LogMessage, FALSE)>>

\* Lines 147-162.
BpDisconnectButtplug ==
    /\ BpCommandReady
    /\ Head(bp_task_command_channel).type = "DisconnectButtplug"
    /\ BpTake(Head(bp_task_command_channel))
    /\ bp_sent' = <<>>
    /\ bp_backend_calls' = DisconnectCalls(optional_client)
    /\ optional_client' = None
    /\ connected_devices' = DisconnectRegistry(optional_client, connected_devices)
    /\ bp_pending_sends' = DisconnectSends(optional_client)
    /\ UNCHANGED <<bp_pc, app_vars, wt_vars>>
    /\ UNCHANGED bp_spawned

\* Line 163: every other command is ignored.
BpIgnoredCommand ==
    /\ BpCommandReady
    /\ Head(bp_task_command_channel).type \in
          {"StartProcessing", "StopProcessing", "UpdateApplicationSettings"}
    /\ BpTake(Head(bp_task_command_channel))
    /\ bp_sent' = <<>>
    /\ bp_backend_calls' = <<>>
    /\ UNCHANGED <<bp_state_vars, app_vars, wt_vars>>
    /\ UNCHANGED bp_spawned

\* One `to_gui_sender.send(update).await`: it completes when the channel has
\* room, and returns Err when the receiver has been dropped.
BpSend ==
    /\ bp_pending_sends # <<>>
    /\ LET s == Head(bp_pending_sends)
       IN IF update_receiver_open
          THEN /\ Len(update_channel) < MaxUpdateQueue
               /\ update_channel' = Append(update_channel, s.update)
               /\ bp_sent' = Append(bp_sent, Sent(s.update, TRUE))
               /\ bp_pending_sends' = Tail(bp_pending_sends)
               /\ UNCHANGED bp_pc
          ELSE /\ bp_sent' = Append(bp_sent, Sent(s.update, FALSE))
               /\ IF s.break_on_error
                  THEN bp_pc' = "stopped" /\ bp_pending_sends' = <<>>
                  ELSE bp_pending_sends' = Tail(bp_pending_sends) /\ UNCHANGED bp_pc
               /\ UNCHANGED update_channel
    /\ UNCHANGED <<optional_client, connected_devices, bp_handled, bp_backend_calls,
                   bp_client_before, wt_task_command_channel, bp_task_command_channel,
                   update_receiver_open, update_dropped, app_vars, wt_vars>>
    /\ UNCHANGED bp_spawned


\* Lines 167-172: with `biased`, the event branch runs only when recv() has
\* no command ready; it never suspends (now_or_never).
\* A recv() that returns None disables the command branch (its pattern is
\* Some(_)) and leaves the event branch to run.
BpEventBranch == BpAtSelect /\ (bp_task_command_channel = <<>> \/ BpRecvNone)

\* The pattern of the event branch (line 167) is a plain binding: there is
\* no value of the branch's future that fails to match it.
BpEventPatternFails == FALSE

\* Lines 253-264: the else branch of select!, taken when every branch is
\* disabled, that is when the pattern of each has failed to match.
BpElseBranch ==
    /\ BpAtSelect
    /\ BpRecvNone
    /\ BpEventPatternFails
    /\ bp_handled' = [type |-> "Else"]
    /\ bp_client_before' = optional_client
    /\ bp_backend_calls' = DisconnectCalls(optional_client)
    /\ bp_sent' = <<>>
    /\ optional_client' = None
    /\ bp_pending_sends' = <<PendingSend(ButtplugDisconnected, FALSE)>>
    /\ bp_pc' = "stopping"
    /\ UNCHANGED <<connected_devices, channel_vars, bp_spawned, app_vars, wt_vars>>

BpTakeEvent(event) ==
    /\ bp_handled' = event
    /\ bp_client_before' = optional_client
    /\ bp_backend_calls' = <<>>
    /\ UNCHANGED <<wt_task_command_channel, bp_task_command_channel, update_receiver_open>>

\* Mutant of DeviceAddedSends: every DeviceAdded event is relayed.
DeviceAddedSends_Always(devices, device) ==
    <<PendingSend(ButtplugDeviceFound(device), FALSE)>>

\* Lines 179-182: the relay of a DeviceAdded event.
DeviceAddedSends(devices, device) ==
    IF ~HasIndex(devices, device.index)
    THEN <<PendingSend(ButtplugDeviceFound(device), FALSE)>>
    ELSE <<>>

\* Lines 198-202: the relay of a DeviceRemoved event: the registry's entry.
DeviceRemovedSends(devices, index) ==
    IF IsSome(LastWithIndex(devices, index))
    THEN <<PendingSend(ButtplugDeviceLost(Unwrap(LastWithIndex(devices, index))), FALSE)>>
    ELSE <<>>

\* Lines 176-186.
BpEventDeviceAdded ==
    /\ BpEventBranch
    /\ ClientConnected
    /\ \E device_arc \in DeviceHandles :
          /\ BpTakeEvent([type |-> "DeviceAdded", device |-> device_arc])
          /\ connected_devices' = AddDevice(connected_devices, device_arc)
          /\ bp_pending_sends' = DeviceAddedSends(connected_devices, device_arc)
    /\ bp_sent' = <<>>
    /\ UNCHANGED <<optional_client, bp_pc, update_channel, update_dropped,
                   app_vars, wt_vars>>
    /\ UNCHANGED bp_spawned

\* Lines 187-203.  Of the removed handle the code reads the index only.
BpEventDeviceRemoved ==
    /\ BpEventBranch
    /\ ClientConnected
    /\ \E removed_index \in BackendIndices :
          /\ BpTakeEvent([type |-> "DeviceRemoved", index |-> removed_index])
          /\ connected_devices' = RetainOtherIndex(connected_devices, removed_index)
          /\ bp_pending_sends' = DeviceRemovedSends(connected_devices, removed_index)
    /\ bp_sent' = <<>>
    /\ UNCHANGED <<optional_client, bp_pc, update_channel, update_dropped,
                   app_vars, wt_vars>>
    /\ UNCHANGED bp_spawned

\* Lines 206-212 and 216-222: the backend ended the session.
BackendDisconnectEvent(event_type) ==
    /\ BpEventBranch
    /\ ClientConnected
    /\ BpTakeEvent([type |-> event_type])
    /\ optional_client' = None
    /\ connected_devices' = <<>>
    /\ bp_pending_sends' = <<PendingSend(ButtplugDisconnected, TRUE),
                             PendingSend(LogMessage, FALSE)>>
    /\ bp_sent' = <<>>
    /\ UNCHANGED <<bp_pc, update_channel, update_dropped,
                   app_vars, wt_vars>>
    /\ UNCHANGED bp_spawned

\* Lines 204-213.
BpEventServerDisconnect == BackendDisconnectEvent("ServerDisconnect")

\* Lines 214-223.
BpEventPingTimeout == BackendDisconnectEvent("PingTimeout")

\* Line 224.
BpEventOther ==
    /\ BpEventBranch
    /\ ClientConnected
    /\ BpTakeEvent([type |-> "OtherEvent"])
    /\ bp_sent' = <<>>
    /\ UNCHANGED <<bp_state_vars, update_channel, update_dropped,
                   app_vars, wt_vars>>
    /\ UNCHANGED bp_spawned

\* Lines 227-230: the stream returned an error; ButtplugError is sent first.
BpEventStreamError ==
    /\ BpEventBranch
    /\ ClientConnected
    /\ \E is_connector_error \in BOOLEAN :
          /\ BpTakeEvent([type |-> "StreamError", connector |-> is_connector_error])
          /\ bp_pc' = IF is_connector_error THEN "error_teardown" ELSE "select"
    /\ bp_pending_sends' = <<PendingSend(ButtplugError, FALSE)>>
    /\ bp_sent' = <<>>
    /\ UNCHANGED <<optional_client, connected_devices, update_channel, update_dropped,
                   app_vars, wt_vars>>
    /\ UNCHANGED bp_spawned

\* Lines 230-237: a connector error ends the session.
BpErrorTeardown ==
    /\ bp_pc = "error_teardown"
    /\ bp_pending_sends = <<>>
    /\ optional_client' = None
    /\ connected_devices' = <<>>
    /\ bp_pending_sends' = <<PendingSend(ButtplugDisconnected, TRUE)>>
    /\ bp_pc' = "select"
    /\ UNCHANGED <<bp_trace_vars, channel_vars, app_vars, wt_vars>>
    /\ UNCHANGED bp_spawned

\* Lines 239-249: the client is there but no longer connected.  The update
\* goes out with try_send.
BpClientGone ==
    /\ BpEventBranch
    /\ IsSome(optional_client)
    /\ ~ClientConnected
    /\ BpTakeEvent([type |-> "ClientGone"])
    /\ optional_client' = None
    /\ connected_devices' = <<>>
    /\ update_channel' = TrySend(update_channel, MaxUpdateQueue, update_receiver_open,
                                 ButtplugDisconnected)
    /\ bp_sent' = <<Sent(ButtplugDisconnected,
                         TrySendOk(update_channel, MaxUpdateQueue, update_receiver_open))>>
    /\ update_dropped' =
          (update_dropped \/ ~TrySendOk(update_channel, MaxUpdateQueue, update_receiver_open))
    /\ UNCHANGED <<bp_pc, bp_pending_sends, app_vars, wt_vars>>
    /\ UNCHANGED bp_spawned

\* Lines 239-240 (no client) and 173 (no event ready): nothing to do.
BpNoEvent ==
    /\ BpEventBranch
    /\ optional_client = None \/ ClientConnected
    /\ BpTakeEvent([type |-> "NoEvent"])
    /\ bp_sent' = <<>>
    /\ UNCHANGED <<bp_state_vars, update_channel, update_dropped, app_vars,
                   wt_vars>>
    /\ UNCHANGED bp_spawned

\* The backend: client.connected() turns false when the connection is lost.
BackendConnectionLost ==
    /\ ClientConnected
    /\ optional_client' = Some([connected |-> FALSE])
    /\ UNCHANGED <<connected_devices, bp_pc, bp_pending_sends, bp_trace_vars,
                   channel_vars, app_vars, wt_vars>>
    /\ UNCHANGED bp_spawned

SessionLoop ==
    \/ BpScanForButtplugDevices
    \/ BpConnectResult
    \/ BpScanStage
    \/ BpVibrateDevice
    \/ BpStopDevice
    \/ BpDisconnectButtplug
    \/ BpIgnoredCommand
    \/ BpSend
    \/ BpEventDeviceAdded
    \/ BpEventDeviceRemoved
    \/ BpEventServerDisconnect
    \/ BpEventPingTimeout
    \/ BpEventOther
    \/ BpEventStreamError
    \/ BpErrorTeardown
    \/ BpClientGone
    \/ BpNoEvent

(***************************************************************************)
(* Settings (configuration_manager.rs) and telemetry snapshots             *)
(* (war_thunder_connector.rs).                                             *)
(*                                                                         *)
(* A rule's name is kept as the set of the substrings the rule evaluation  *)
(* looks for that occur in it ("urona" stands for the Cyrillic word of     *)
(* game_event_processor.rs line 39, "Vystrel" for that of line 48).        *)
(* Intensities are hundredths, health values thousandths of a percent.     *)
(***************************************************************************)
DeviceAction(action_type, intensity, duration_milliseconds) ==
    [action_type |-> action_type, intensity |-> intensity,
     duration_milliseconds |-> duration_milliseconds]

EventActionSetting(name, enabled, device_action) ==
    [name |-> name, enabled |-> enabled, device_action |-> device_action]

\* A settings value with the application name and the server address of
\* impl Default (lines 55 and 57), which the program never edits.
ApplicationSettings(polling_interval, event_actions) ==
    [application_name |-> "WarThunder Haptics GUI (Default)",
     polling_interval_milliseconds |-> polling_interval,
     buttplug_server_address |-> "ws://127.0.0.1:12345",
     event_actions |-> event_actions]

\* str::contains on a rule name.
NameContains(name, pattern) == pattern \in name

\* impl Default for ApplicationSettings: the name of the one default rule
\* contains none of the substrings looked for.
DefaultSettings ==
    ApplicationSettings(250, <<EventActionSetting({}, TRUE, DeviceAction("Vibrate", 30, 1000))>>)

\* What a settings.toml deserializes to: the defaults written on first run,
\* or a file with another interval and a damage rule.
FileSettings ==
    {DefaultSettings,
     ApplicationSettings(100, <<EventActionSetting({"damage"}, TRUE,
                                                   DeviceAction("Vibrate", 50, 500))>>)}

\* load_configuration(): Ok(settings) is Some(settings), Err(_) is None.
LoadResults == {Some(s) : s \in FileSettings} \cup {None}

\* Lines 46-54 of application.rs and 74-77 of main.rs.
LoadedOrDefault(result) == IF IsSome(result) THEN Unwrap(result) ELSE DefaultSettings

(***************************************************************************)
(* settings.toml (configuration_manager.rs lines 73-110).  A TOML document *)
(* is a function from the keys it holds to typed TOML values; a table      *)
(* value holds a document, an array value a sequence of values.  The file  *)
(* is one of: no configuration directory (get_config_path fails), absent,  *)
(* absent in a directory that cannot be written, present but unreadable,   *)
(* or a text, which parses to a document (content is Some) or does not     *)
(* (content is None).                                                      *)
(***************************************************************************)
TomlString(value) == [toml |-> "string", value |-> value]
TomlInteger(value) == [toml |-> "integer", value |-> value]
TomlFloat(value) == [toml |-> "float", value |-> value]
TomlBoolean(value) == [toml |-> "boolean", value |-> value]
TomlTable(document) == [toml |-> "table", value |-> document]
TomlArray(values) == [toml |-> "array", value |-> values]

\* Lines 26-27, the intensity in hundredths.
default_intensity == 50
default_duration == 500

\* derive(Serialize) of DeviceAction (lines 17-24), EventActionSetting (lines
\* 31-40) and ApplicationSettings (lines 43-50): every field is written
\* under its name.
SerializeDeviceAction(device_action) ==
    TomlTable([action_type |-> TomlString(device_action.action_type),
               intensity |-> TomlFloat(device_action.intensity),
               duration_milliseconds |-> TomlInteger(device_action.duration_milliseconds)])

SerializeEventAction(event_action) ==
    TomlTable([name |-> TomlString(event_action.name),
               enabled |-> TomlBoolean(event_action.enabled),
               device_action |-> SerializeDeviceAction(event_action.device_action)])

SerializeSettings(s) ==
    [application_name |-> TomlString(s.application_name),
     polling_interval_milliseconds |-> TomlInteger(s.polling_interval_milliseconds),
     buttplug_server_address |-> TomlString(s.buttplug_server_address),
     event_actions |->
         TomlArray([k \in DOMAIN s.event_actions |-> SerializeEventAction(s.event_actions[k])])]

\* Deserialize for the field types: Some(value), or None for a type error.
DeserializeString(v) == IF v.toml = "string" THEN Some(v.value) ELSE None
DeserializeBool(v) == IF v.toml = "boolean" THEN Some(v.value) ELSE None
DeserializeU64(v) == IF v.toml = "integer" /\ v.value >= 0 THEN Some(v.value) ELSE None
DeserializeF64(v) ==
    IF v.toml = "float" THEN Some(v.value)
    ELSE IF v.toml = "integer" THEN Some(100 * v.value) ELSE None

\* derive(Deserialize) of DeviceActionType (lines 9-15).
DeserializeDeviceActionType(v) ==
    IF v.toml = "string" /\ v.value \in {"Vibrate", "Stop"} THEN Some(v.value) ELSE None

\* A field without a serde default: a missing key is an error.
RequiredField(document, key, Deserialize(_)) ==
    IF key \in DOMAIN document THEN Deserialize(document[key]) ELSE None

\* A field with #[serde(default ...)]: a missing key gives the default.
DefaultedField(document, key, Deserialize(_), default) ==
    IF key \in DOMAIN document THEN Deserialize(document[key]) ELSE Some(default)

\* Mutant of DeserializeDeviceAction: the intensity of the file is not read.
DeserializeDeviceAction_DefaultIntensity(v) ==
    IF v.toml # "table" THEN None
    ELSE LET action_type ==
                 RequiredField(v.value, "action_type", DeserializeDeviceActionType)
             duration_milliseconds ==
                 DefaultedField(v.value, "duration_milliseconds", DeserializeU64,
                                default_duration)
         IN IF action_type = None \/ duration_milliseconds = None THEN None
            ELSE Some(DeviceAction(Unwrap(action_type), default_intensity,
                                   Unwrap(duration_milliseconds)))

\* derive(Deserialize) of DeviceAction (lines 17-24).
DeserializeDeviceAction(v) ==
    IF v.toml # "table" THEN None
    ELSE LET action_type ==
                 RequiredField(v.value, "action_type", DeserializeDeviceActionType)
             intensity ==
                 DefaultedField(v.value, "intensity", DeserializeF64, default_intensity)
             duration_milliseconds ==
                 DefaultedField(v.value, "duration_milliseconds", DeserializeU64,
                                default_duration)
         IN IF action_type = None \/ intensity = None \/ duration_milliseconds = None
            THEN None
            ELSE Some(DeviceAction(Unwrap(action_type), Unwrap(intensity),
                                   Unwrap(duration_milliseconds)))

\* derive(Deserialize) of EventActionSetting (lines 31-40).
DeserializeEventAction(v) ==
    IF v.toml # "table" THEN None
    ELSE LET name == RequiredField(v.value, "name", DeserializeString)
             enabled == RequiredField(v.value, "enabled", DeserializeBool)
             device_action == RequiredField(v.value, "device_action", DeserializeDeviceAction)
         IN IF name = None \/ enabled = None \/ device_action = None THEN None
            ELSE Some(EventActionSetting(Unwrap(name), Unwrap(enabled),
                                         Unwrap(device_action)))

\* Deserialize for Vec<EventActionSetting>.
DeserializeEventActions(v) ==
    IF v.toml # "array" THEN None
    ELSE IF \E k \in DOMAIN v.value : DeserializeEventAction(v.value[k]) = None THEN None
         ELSE Some([k \in DOMAIN v.value |-> Unwrap(DeserializeEventAction(v.value[k]))])

\* Mutant of DeserializeSettings: the event-action list has no default.
DeserializeSettings_ListRequired(document) ==
    LET application_name == RequiredField(document, "application_name", DeserializeString)
        polling_interval ==
            RequiredField(document, "polling_interval_milliseconds", DeserializeU64)
        buttplug_server_address ==
            RequiredField(document, "buttplug_server_address", DeserializeString)
        event_actions == RequiredField(document, "event_actions", DeserializeEventActions)
    IN IF application_name = None \/ polling_interval = None
             \/ buttplug_server_address = None \/ event_actions = None
       THEN None
       ELSE Some([application_name |-> Unwrap(application_name),
                  polling_interval_milliseconds |-> Unwrap(polling_interval),
                  buttplug_server_address |-> Unwrap(buttplug_server_address),
                  event_actions |-> Unwrap(event_actions)])

\* derive(Deserialize) of ApplicationSettings (lines 43-50), as toml::from_str
\* (line 99) applies it to a parsed document.
DeserializeSettings(document) ==
    LET application_name == RequiredField(document, "application_name", DeserializeString)
        polling_interval ==
            RequiredField(document, "polling_interval_milliseconds", DeserializeU64)
        buttplug_server_address ==
            RequiredField(document, "buttplug_server_address", DeserializeString)
        event_actions ==
            DefaultedField(document, "event_actions", DeserializeEventActions, <<>>)
    IN IF application_name = None \/ polling_interval = None
             \/ buttplug_server_address = None \/ event_actions = None
       THEN None
       ELSE Some([application_name |-> Unwrap(application_name),
                  polling_interval_milliseconds |-> Unwrap(polling_interval),
                  buttplug_server_address |-> Unwrap(buttplug_server_address),
                  event_actions |-> Unwrap(event_actions)])

NoConfigDir == [kind |-> "no_dir"]
AbsentFile == [kind |-> "absent"]
UnwritableDir == [kind |-> "unwritable"]
UnreadableFile == [kind |-> "unreadable"]
TextFile(content) == [kind |-> "file", content |-> content]

\* The value of config_file in a specification that does not follow the file.
FileNotFollowed == [kind |-> "not_followed"]

\* Lines 105-109: the file save_configuration writes for these settings.
WrittenFile(s) == TextFile(Some(SerializeSettings(s)))

\* save_configuration (lines 103-110): ok tells Ok(()) from Err, file is the
\* file it leaves behind.
SaveConfiguration(file, s) ==
    IF file.kind \in {"no_dir", "unwritable", "unreadable"}
    THEN [ok |-> FALSE, file |-> file]
    ELSE [ok |-> TRUE, file |-> WrittenFile(s)]

\* Mutant of LoadConfiguration: an absent file gives the defaults and nothing
\* is written.
LoadConfiguration_NoPersist(file) ==
    IF file.kind \in {"no_dir", "unreadable"} THEN [result |-> None, file |-> file]
    ELSE IF file.kind \in {"absent", "unwritable"}
         THEN [result |-> Some(DefaultSettings), file |-> file]
         ELSE [result |-> IF file.content = None THEN None
                          ELSE DeserializeSettings(Unwrap(file.content)),
               file |-> file]

\* load_configuration (lines 86-101): result is Ok(settings) as Some(settings)
\* and Err as None, file is the file it leaves behind.
LoadConfiguration(file) ==
    IF file.kind \in {"no_dir", "unreadable"} THEN [result |-> None, file |-> file]
    ELSE IF file.kind \in {"absent", "unwritable"}
         THEN LET saved == SaveConfiguration(file, DefaultSettings)
              IN [result |-> IF saved.ok THEN Some(DefaultSettings) ELSE None,
                  file |-> saved.file]
         ELSE [result |-> IF file.content = None THEN None
                          ELSE DeserializeSettings(Unwrap(file.content)),
               file |-> file]

WarThunderIndicators(health_percentage) == [health_percentage |-> health_percentage]

HealthValues == {95000, 100000}

IndicatorValues == {WarThunderIndicators(h) : h \in {None} \cup {Some(v) : v \in HealthValues}}

\* The 0.01 of game_event_processor.rs line 42 and war_thunder_connector.rs
\* line 71, in thousandths.
HealthEpsilon == 10

GameStateSnapshot(last_health_percentage) == [last_health_percentage |-> last_health_percentage]

(***************************************************************************)
(* game_event_processor.rs: process_war_thunder_data.                      *)
(***************************************************************************)
\* Lines 39-47: the health test of one enabled rule.
HealthDropped(current_indicators, previous_state) ==
    /\ IsSome(current_indicators.health_percentage)
    /\ IsSome(previous_state.last_health_percentage)
    /\ Unwrap(current_indicators.health_percentage)
          < Unwrap(previous_state.last_health_percentage)
    /\ Unwrap(previous_state.last_health_percentage)
          - Unwrap(current_indicators.health_percentage) > HealthEpsilon

\* Lines 29-58: whether one rule contributes its action.
RuleFires(event_action_config, current_indicators, previous_state) ==
    /\ event_action_config.enabled
    /\ NameContains(event_action_config.name, "urona")
          \/ NameContains(event_action_config.name, "damage")
    /\ HealthDropped(current_indicators, previous_state)

\* Lines 26-60 and 67: the actions, in settings order.
RECURSIVE ActionsToPerform(_, _, _)
ActionsToPerform(event_actions, current_indicators, previous_state) ==
    IF event_actions = <<>> THEN <<>>
    ELSE (IF RuleFires(Head(event_actions), current_indicators, previous_state)
          THEN <<Head(event_actions).device_action>> ELSE <<>>)
         \o ActionsToPerform(Tail(event_actions), current_indicators, previous_state)

\* Line 63: the snapshot the call leaves behind.
UpdatedSnapshot(current_indicators) == GameStateSnapshot(current_indicators.health_percentage)

(***************************************************************************)
(* Coordinator: WarThunderHapticsApplication (application.rs).             *)
(* log_messages and the three config_editor_* fields' text are display     *)
(* state; the log is not modelled.  Every command leaves through           *)
(* command_sender, which main.rs line 192 makes a clone of                 *)
(* wt_task_command_sender.                                                 *)
(***************************************************************************)
\* The poller's command receiver lives until run_war_thunder_polling_loop
\* returns.
WtReceiverOpen == wt_pc # "stopped"

\* command_sender.try_send(command).
CommandSenderTrySend(queue, command) ==
    TrySend(queue, MaxCommandQueue, WtReceiverOpen, command)

RECURSIVE CommandSenderTrySendAll(_, _)
CommandSenderTrySendAll(queue, commands) ==
    IF commands = <<>> THEN queue
    ELSE CommandSenderTrySendAll(CommandSenderTrySend(queue, Head(commands)), Tail(commands))

\* Line 86: update_receiver.try_recv() returned Ok(update).
AppTryRecv(update_type) ==
    /\ app_pc = "drain"
    /\ update_receiver_open
    /\ update_channel # <<>>
    /\ Head(update_channel).type = update_type
    /\ update_channel' = Tail(update_channel)
    /\ UNCHANGED <<bp_task_command_channel, update_receiver_open, update_dropped, app_pc>>
    /\ UNCHANGED config_file

\* Mutant of AppDrained: handle_incoming_updates returns without looking at
\* the queue again.
AppDrained_AfterOne ==
    /\ app_pc = "drain"
    /\ update_receiver_open
    /\ app_pc' = "ui"
    /\ UNCHANGED <<channel_vars, bp_vars, wt_vars, app_bp_vars, app_wt_vars, settings,
                   is_processing_enabled>>
    /\ UNCHANGED config_file

\* Line 86: try_recv() returned Err(Empty); the frame goes on to the widgets.
AppDrained ==
    /\ app_pc = "drain"
    /\ update_receiver_open
    /\ update_channel = <<>>
    /\ app_pc' = "ui"
    /\ UNCHANGED <<channel_vars, bp_vars, wt_vars, app_bp_vars, app_wt_vars, settings,
                   is_processing_enabled>>
    /\ UNCHANGED config_file

HasAddress(devices, address) == \E k \in DOMAIN devices : devices[k].address = address

\* Lines 151-153.
FoundDevices(devices, device) ==
    IF ~HasAddress(devices, device.address) THEN Append(devices, device) ELSE devices

\* Lines 151-157.
FoundSelection(devices, selected, device) ==
    IF ~HasAddress(devices, device.address) /\ selected = None THEN Some(0) ELSE selected

\* Line 161.
LostDevices(devices, device) == SelectSeq(devices, LAMBDA d : d.address # device.address)

\* Mutant of LostSelection: the selection is left as it is.
LostSelection_Kept(devices_after, selected) == selected

\* Lines 162-166.
LostSelection(devices_after, selected) ==
    IF IsSome(selected) /\ Unwrap(selected) >= Len(devices_after)
    THEN IF devices_after = <<>> THEN None ELSE Some(0)
    ELSE selected

\* Mutant of TargetDeviceIdx: the first known device whatever is selected.
TargetDeviceIdx_FirstKnown(selected, devices) ==
    IF devices # <<>> THEN Some(0) ELSE None

\* Line 105: the offset a fired action is addressed to.
TargetDeviceIdx(selected, devices) ==
    IF IsSome(selected) THEN selected
    ELSE IF devices # <<>> THEN Some(0) ELSE None

\* What the Coordinator shows at an offset of its list: the backend index of
\* the device there, -1 for no device.
DeviceShownAt(devices, device_idx) ==
    IF device_idx < Len(devices) THEN devices[device_idx + 1].index ELSE -1

\* A command as the Coordinator issues it.  The field target remembers the
\* device the Coordinator's list holds at the command's offset when the
\* command is issued; it is not part of the Rust value and no handler reads it.
IssuedFor(command, devices) ==
    command @@ [target |-> DeviceShownAt(devices, command.device_index)]

\* Lines 107-130.
ActionCommand(device_action, device_idx) ==
    IF device_action.action_type = "Vibrate"
    THEN VibrateDevice(device_idx, device_action.intensity)
    ELSE StopDevice(device_idx)

\* Lines 101-132: the commands of one telemetry update, in order.
ActionCommands(actions_to_take, selected, devices) ==
    IF IsSome(TargetDeviceIdx(selected, devices))
    THEN [k \in DOMAIN actions_to_take |->
             IssuedFor(ActionCommand(actions_to_take[k],
                                     Unwrap(TargetDeviceIdx(selected, devices))),
                       devices)]
    ELSE <<>>

\* Lines 88-90.
AppLogMessage ==
    /\ AppTryRecv("LogMessage")
    /\ UNCHANGED <<wt_task_command_channel, bp_vars, wt_vars, app_bp_vars, app_wt_vars,
                   settings, is_processing_enabled>>

\* Mutant of AppWarThunderIndicatorsUpdate: the rules are evaluated whether
\* processing is enabled or not.
AppWarThunderIndicatorsUpdate_AlwaysProcess ==
    /\ AppTryRecv("WarThunderIndicatorsUpdate")
    /\ LET indicators == Head(update_channel).indicators
           actions_to_take ==
               ActionsToPerform(settings.event_actions, indicators, game_state_snapshot)
       IN /\ current_wt_indicators' = Some(indicators)
          /\ game_state_snapshot' = UpdatedSnapshot(indicators)
          /\ wt_task_command_channel' =
                CommandSenderTrySendAll(
                    wt_task_command_channel,
                    ActionCommands(actions_to_take, selected_device_index,
                                   buttplug_devices))
    /\ UNCHANGED <<bp_vars, wt_vars, app_bp_vars, is_war_thunder_connected, settings,
                   is_processing_enabled>>

\* Lines 91-134.
AppWarThunderIndicatorsUpdate ==
    /\ AppTryRecv("WarThunderIndicatorsUpdate")
    /\ LET indicators == Head(update_channel).indicators
           actions_to_take ==
               ActionsToPerform(settings.event_actions, indicators, game_state_snapshot)
       IN /\ current_wt_indicators' = Some(indicators)
          /\ IF is_processing_enabled
             THEN /\ game_state_snapshot' = UpdatedSnapshot(indicators)
                  /\ wt_task_command_channel' =
                        CommandSenderTrySendAll(
                            wt_task_command_channel,
                            ActionCommands(actions_to_take, selected_device_index,
                                           buttplug_devices))
             ELSE UNCHANGED <<game_state_snapshot, wt_task_command_channel>>
    /\ UNCHANGED <<bp_vars, wt_vars, app_bp_vars, is_war_thunder_connected, settings,
                   is_processing_enabled>>

\* Lines 135-138.
AppWarThunderConnectionStatus ==
    /\ AppTryRecv("WarThunderConnectionStatus")
    /\ is_war_thunder_connected' = Head(update_channel).is_connected
    /\ current_wt_indicators' =
          IF Head(update_channel).is_connected THEN current_wt_indicators ELSE None
    /\ UNCHANGED <<wt_task_command_channel, bp_vars, wt_vars, app_bp_vars,
                   game_state_snapshot, settings, is_processing_enabled>>

\* Lines 139-142.
AppButtplugConnected ==
    /\ AppTryRecv("ButtplugConnected")
    /\ is_buttplug_connected' = TRUE
    /\ UNCHANGED <<wt_task_command_channel, bp_vars, wt_vars, buttplug_devices,
                   selected_device_index, app_wt_vars, settings, is_processing_enabled>>

\* Lines 143-148.
AppButtplugDisconnected ==
    /\ AppTryRecv("ButtplugDisconnected")
    /\ is_buttplug_connected' = FALSE
    /\ buttplug_devices' = <<>>
    /\ selected_device_index' = None
    /\ UNCHANGED <<wt_task_command_channel, bp_vars, wt_vars, app_wt_vars, settings,
                   is_processing_enabled>>

\* Lines 149-158.
AppButtplugDeviceFound ==
    /\ AppTryRecv("ButtplugDeviceFound")
    /\ buttplug_devices' = FoundDevices(buttplug_devices, Head(update_channel).device)
    /\ selected_device_index' =
          FoundSelection(buttplug_devices, selected_device_index, Head(update_channel).device)
    /\ UNCHANGED <<wt_task_command_channel, bp_vars, wt_vars, is_buttplug_connected,
                   app_wt_vars, settings, is_processing_enabled>>

\* Lines 159-167.
AppButtplugDeviceLost ==
    /\ AppTryRecv("ButtplugDeviceLost")
    /\ buttplug_devices' = LostDevices(buttplug_devices, Head(update_channel).device)
    /\ selected_device_index' =
          LostSelection(LostDevices(buttplug_devices, Head(update_channel).device),
                        selected_device_index)
    /\ UNCHANGED <<wt_task_command_channel, bp_vars, wt_vars, is_buttplug_connected,
                   app_wt_vars, settings, is_processing_enabled>>

\* Lines 168-170.
AppButtplugError ==
    /\ AppTryRecv("ButtplugError")
    /\ UNCHANGED <<wt_task_command_channel, bp_vars, wt_vars, app_bp_vars, app_wt_vars,
                   settings, is_processing_enabled>>

(***************************************************************************)
(* Coordinator: the widgets of WarThunderHapticsApplication::update.  One  *)
(* frame handles at most one click and then returns; the next frame starts *)
(* with handle_incoming_updates.                                           *)
(***************************************************************************)
\* The event-action list is edited up to this length.
MaxEventActions == 1

\* Values the three "new action" fields are given before the button is
\* pressed: the initial ones of lines 71-73 and a name with "damage" in it.
EditorNames == {{}, {"damage"}}
EditorIntensities == {50}
EditorDurations == {500}

UiFrame ==
    /\ app_pc = "ui"
    /\ update_receiver_open
    /\ app_pc' = "drain"
    /\ UNCHANGED <<bp_task_command_channel, update_channel, update_receiver_open, update_dropped,
                   bp_vars, wt_vars>>

\* Lines 185-363 with no widget activated.
UiNoInput ==
    /\ UiFrame
    /\ UNCHANGED <<wt_task_command_channel, app_bp_vars, app_wt_vars, settings,
                   is_processing_enabled>>
    /\ UNCHANGED config_file

\* Lines 188-194: "save configuration" is clicked.
UiSaveConfiguration ==
    /\ UiFrame
    /\ config_file # FileNotFollowed
    /\ config_file' = SaveConfiguration(config_file, settings).file
    /\ UNCHANGED <<wt_task_command_channel, app_bp_vars, app_wt_vars, settings,
                   is_processing_enabled>>

\* What load_configuration() returns and leaves behind: for the file that
\* is there, or, where the file is not followed, any result for a file the
\* user may have put there.
LoadOutcomes ==
    IF config_file # FileNotFollowed THEN {LoadConfiguration(config_file)}
    ELSE {[result |-> result, file |-> config_file] : result \in LoadResults}

\* Lines 195-205.
UiLoadConfiguration ==
    /\ UiFrame
    /\ \E loaded \in LoadOutcomes :
          /\ config_file' = loaded.file
          /\ IF IsSome(loaded.result)
             THEN /\ settings' = Unwrap(loaded.result)
                  /\ wt_task_command_channel' =
                        CommandSenderTrySend(wt_task_command_channel,
                                             UpdateApplicationSettings(Unwrap(loaded.result)))
             ELSE UNCHANGED <<settings, wt_task_command_channel>>
    /\ UNCHANGED <<app_bp_vars, app_wt_vars, is_processing_enabled>>

\* Lines 211-222.
UiToggleProcessing ==
    /\ UiFrame
    /\ is_processing_enabled' = ~is_processing_enabled
    /\ wt_task_command_channel' =
          CommandSenderTrySend(wt_task_command_channel,
                               IF ~is_processing_enabled THEN StartProcessing
                               ELSE StopProcessing)
    /\ UNCHANGED <<app_bp_vars, app_wt_vars, settings>>
    /\ UNCHANGED config_file

\* Lines 224-227.
UiScanForButtplugDevices ==
    /\ UiFrame
    /\ wt_task_command_channel' =
          CommandSenderTrySend(wt_task_command_channel, ScanForButtplugDevices)
    /\ UNCHANGED <<app_bp_vars, app_wt_vars, settings, is_processing_enabled>>
    /\ UNCHANGED config_file

\* Lines 228-231.
UiDisconnectButtplug ==
    /\ UiFrame
    /\ wt_task_command_channel' =
          CommandSenderTrySend(wt_task_command_channel, DisconnectButtplug)
    /\ UNCHANGED <<app_bp_vars, app_wt_vars, settings, is_processing_enabled>>
    /\ UNCHANGED config_file

\* Line 252: the device list and its two buttons are shown.
UiDevicesShown == is_buttplug_connected /\ buttplug_devices # <<>>

\* Lines 254-256.
UiSelectDevice ==
    /\ UiFrame
    /\ UiDevicesShown
    /\ \E idx \in 0..(Len(buttplug_devices) - 1) : selected_device_index' = Some(idx)
    /\ UNCHANGED <<wt_task_command_channel, buttplug_devices, is_buttplug_connected,
                   app_wt_vars, settings, is_processing_enabled>>
    /\ UNCHANGED config_file

\* Lines 257-260.
UiTestVibrate ==
    /\ UiFrame
    /\ UiDevicesShown
    /\ IsSome(selected_device_index)
    /\ wt_task_command_channel' =
          CommandSenderTrySend(wt_task_command_channel,
                               IssuedFor(VibrateDevice(Unwrap(selected_device_index), 50),
                                         buttplug_devices))
    /\ UNCHANGED <<app_bp_vars, app_wt_vars, settings, is_processing_enabled>>
    /\ UNCHANGED config_file

\* Lines 261-263.
UiTestStop ==
    /\ UiFrame
    /\ UiDevicesShown
    /\ IsSome(selected_device_index)
    /\ wt_task_command_channel' =
          CommandSenderTrySend(wt_task_command_channel,
                               IssuedFor(StopDevice(Unwrap(selected_device_index)),
                                         buttplug_devices))
    /\ UNCHANGED <<app_bp_vars, app_wt_vars, settings, is_processing_enabled>>
    /\ UNCHANGED config_file

\* Line 297: the checkbox is bound to event_action.enabled and nothing is sent.
UiToggleRuleEnabled ==
    /\ UiFrame
    /\ \E index \in DOMAIN settings.event_actions :
          settings' = [settings EXCEPT !.event_actions[index].enabled = ~@]
    /\ UNCHANGED <<wt_task_command_channel, app_bp_vars, app_wt_vars, is_processing_enabled>>
    /\ UNCHANGED config_file

\* Line 298: the text field is bound to event_action.name and nothing is sent.
UiRenameRule ==
    /\ UiFrame
    /\ \E index \in DOMAIN settings.event_actions, name \in EditorNames :
          /\ name # settings.event_actions[index].name
          /\ settings' = [settings EXCEPT !.event_actions[index].name = name]
    /\ UNCHANGED <<wt_task_command_channel, app_bp_vars, app_wt_vars, is_processing_enabled>>
    /\ UNCHANGED config_file

\* Lines 306-316; Vec::remove(index).
RemoveAt(event_actions, index) ==
    [k \in 1..(Len(event_actions) - 1) |->
        IF k < index THEN event_actions[k] ELSE event_actions[k + 1]]

UiDeleteAction ==
    /\ UiFrame
    /\ \E index \in DOMAIN settings.event_actions :
          LET new_settings ==
                  [settings EXCEPT !.event_actions = RemoveAt(settings.event_actions, index)]
          IN /\ settings' = new_settings
             /\ wt_task_command_channel' =
                   CommandSenderTrySend(wt_task_command_channel,
                                        UpdateApplicationSettings(new_settings))
    /\ UNCHANGED <<app_bp_vars, app_wt_vars, is_processing_enabled>>
    /\ UNCHANGED config_file

\* Lines 333-347.
UiAddAction ==
    /\ UiFrame
    /\ Len(settings.event_actions) < MaxEventActions
    /\ \E name \in EditorNames, intensity \in EditorIntensities,
          duration \in EditorDurations :
          LET new_action ==
                  EventActionSetting(name, TRUE, DeviceAction("Vibrate", intensity, duration))
              new_settings ==
                  [settings EXCEPT !.event_actions = Append(settings.event_actions, new_action)]
          IN /\ settings' = new_settings
             /\ wt_task_command_channel' =
                   CommandSenderTrySend(wt_task_command_channel,
                                        UpdateApplicationSettings(new_settings))
    /\ UNCHANGED <<app_bp_vars, app_wt_vars, is_processing_enabled>>
    /\ UNCHANGED config_file

\* The window is closed: eframe calls save() when it persists the
\* application (lines 367-383) and then drops it, update_receiver_gui
\* included (main.rs line 193).  The two commands of lines 377-378 go out in
\* that order.
AppExit ==
    /\ update_receiver_open
    /\ update_receiver_open' = FALSE
    /\ update_channel' = <<>>
    /\ UNCHANGED update_dropped
    /\ \E save_called \in BOOLEAN :
          wt_task_command_channel' =
              IF save_called
              THEN CommandSenderTrySendAll(wt_task_command_channel,
                                           <<StopProcessing, DisconnectButtplug>>)
              ELSE wt_task_command_channel
    /\ UNCHANGED <<bp_task_command_channel, bp_vars, wt_vars, app_vars>>

(***************************************************************************)
(* Telemetry Poller: run_war_thunder_polling_loop (war_thunder_connector). *)
(* wt_pc is "try_recv" at the top of the loop, "fetch" before the HTTP     *)
(* request, "sleep" before line 113, "stopping" between a break decision   *)
(* and the return, "stopped" after the return.                             *)
(***************************************************************************)
\* Line 44: try_recv() returned a command.
WtTryRecvCommand(command_type) ==
    /\ wt_pc = "try_recv"
    /\ wt_task_command_channel # <<>>
    /\ Head(wt_task_command_channel).type = command_type
    /\ wt_task_command_channel' = Tail(wt_task_command_channel)
    /\ UNCHANGED <<bp_task_command_channel, update_channel, update_receiver_open, update_dropped,
                   bp_vars, app_vars, last_known_health>>

\* Lines 45-48.
WtUpdateApplicationSettings ==
    /\ WtTryRecvCommand("UpdateApplicationSettings")
    /\ polling_interval_milliseconds' =
          Head(wt_task_command_channel).settings.polling_interval_milliseconds
    /\ wt_pending_sends' = <<PendingSend(LogMessage, FALSE)>>
    /\ wt_pc' = "fetch"

\* Mutant of WtStopProcessing: the poller reports and waits for the next
\* command instead of returning.
WtStopProcessing_Pauses ==
    /\ WtTryRecvCommand("StopProcessing")
    /\ wt_pending_sends' = <<PendingSend(LogMessage, FALSE),
                             PendingSend(WarThunderConnectionStatus(FALSE), FALSE)>>
    /\ wt_pc' = "sleep"
    /\ UNCHANGED polling_interval_milliseconds

\* Lines 49-53.
WtStopProcessing ==
    /\ WtTryRecvCommand("StopProcessing")
    /\ wt_pending_sends' = <<PendingSend(LogMessage, FALSE),
                             PendingSend(WarThunderConnectionStatus(FALSE), FALSE)>>
    /\ wt_pc' = "stopping"
    /\ UNCHANGED polling_interval_milliseconds

\* Line 59: every other command is taken off the queue and dropped.
WtIgnoredCommand ==
    /\ \E command_type \in {"StartProcessing", "VibrateDevice", "StopDevice",
                            "ScanForButtplugDevices", "DisconnectButtplug"} :
          WtTryRecvCommand(command_type)
    /\ wt_pc' = "fetch"
    /\ UNCHANGED <<polling_interval_milliseconds, wt_pending_sends>>

\* Line 54: no command is waiting.
WtNoCommand ==
    /\ wt_pc = "try_recv"
    /\ wt_task_command_channel = <<>>
    /\ wt_pc' = "fetch"
    /\ UNCHANGED <<channel_vars, bp_vars, app_vars, polling_interval_milliseconds,
                   last_known_health, wt_pending_sends>>

\* Lines 69-76: whether the damage log is sent.
DamageLogged(indicators, last_health) ==
    /\ IsSome(indicators.health_percentage)
    /\ IsSome(last_health)
    /\ Unwrap(last_health) - Unwrap(indicators.health_percentage) > HealthEpsilon
    /\ Unwrap(indicators.health_percentage) < Unwrap(last_health)

\* Lines 69-78.
NextKnownHealth(indicators, last_health) ==
    IF IsSome(indicators.health_percentage) THEN indicators.health_percentage ELSE last_health

\* Mutant of IndicatorsSends: the snapshot is sent only when its health differs
\* from the last one seen.
IndicatorsSends_OnChange(indicators, last_health) ==
    (IF indicators.health_percentage # last_health
     THEN <<PendingSend(WarThunderIndicatorsUpdate(indicators), TRUE)>>
     ELSE <<>>)
        \o <<PendingSend(WarThunderConnectionStatus(TRUE), TRUE)>>

\* Mutant of IndicatorsSends: the connection status goes out before the
\* snapshot.
IndicatorsSends_StatusFirst(indicators, last_health) ==
    <<PendingSend(WarThunderConnectionStatus(TRUE), TRUE),
      PendingSend(WarThunderIndicatorsUpdate(indicators), TRUE)>>

\* Lines 67-88: the sends of a cycle whose response parsed.
IndicatorsSends(indicators, last_health) ==
    (IF DamageLogged(indicators, last_health) THEN <<PendingSend(LogMessage, FALSE)>> ELSE <<>>)
        \o <<PendingSend(WarThunderIndicatorsUpdate(indicators), TRUE),
             PendingSend(WarThunderConnectionStatus(TRUE), TRUE)>>

\* Mutant of ParseErrorSends: the parse error is not logged.
ParseErrorSends_Silent == <<PendingSend(WarThunderConnectionStatus(FALSE), TRUE)>>

\* Lines 89-95.
ParseErrorSends ==
    <<PendingSend(LogMessage, FALSE), PendingSend(WarThunderConnectionStatus(FALSE), TRUE)>>

\* Mutant of NoDataSends: the failure is logged as well.
NoDataSends_Logged ==
    <<PendingSend(LogMessage, FALSE), PendingSend(WarThunderConnectionStatus(FALSE), TRUE)>>

\* Lines 97-111: a status that is not a success, or no response at all.
NoDataSends == <<PendingSend(WarThunderConnectionStatus(FALSE), TRUE)>>

WtFetchStep ==
    /\ wt_pc = "fetch"
    /\ wt_pending_sends = <<>>
    /\ wt_pc' = "sleep"
    /\ UNCHANGED <<channel_vars, bp_vars, app_vars, polling_interval_milliseconds>>

\* Lines 63-88.
WtFetchIndicators ==
    /\ WtFetchStep
    /\ \E indicators \in IndicatorValues :
          /\ wt_pending_sends' = IndicatorsSends(indicators, last_known_health)
          /\ last_known_health' = NextKnownHealth(indicators, last_known_health)

\* Lines 89-95.
WtFetchParseError ==
    /\ WtFetchStep
    /\ wt_pending_sends' = ParseErrorSends
    /\ UNCHANGED last_known_health

\* Lines 97-111.
WtFetchNoData ==
    /\ WtFetchStep
    /\ wt_pending_sends' = NoDataSends
    /\ UNCHANGED last_known_health

\* One `gui_update_sender.send(update).await`.
WtSend ==
    /\ wt_pending_sends # <<>>
    /\ LET s == Head(wt_pending_sends)
       IN IF update_receiver_open
          THEN /\ Len(update_channel) < MaxUpdateQueue
               /\ update_channel' = Append(update_channel, s.update)
               /\ wt_pending_sends' = Tail(wt_pending_sends)
               /\ UNCHANGED wt_pc
          ELSE /\ IF s.break_on_error
                  THEN wt_pc' = "stopping" /\ wt_pending_sends' = <<>>
                  ELSE wt_pending_sends' = Tail(wt_pending_sends) /\ UNCHANGED wt_pc
               /\ UNCHANGED update_channel
    /\ UNCHANGED <<wt_task_command_channel, bp_task_command_channel, update_receiver_open,
                   update_dropped,
                   bp_vars, app_vars, polling_interval_milliseconds, last_known_health>>

\* Line 113: the sleep of polling_interval_milliseconds is over.
WtSleep ==
    /\ wt_pc = "sleep"
    /\ wt_pending_sends = <<>>
    /\ wt_pc' = "try_recv"
    /\ UNCHANGED <<channel_vars, bp_vars, app_vars, polling_interval_milliseconds,
                   last_known_health, wt_pending_sends>>

\* Lines 52, 83, 86, 93, 101, 109: break; the function returns and drops
\* command_receiver with whatever it still holds.
WtBreak ==
    /\ wt_pc = "stopping"
    /\ wt_pending_sends = <<>>
    /\ wt_pc' = "stopped"
    /\ wt_task_command_channel' = <<>>
    /\ UNCHANGED <<bp_task_command_channel, update_channel, update_receiver_open,
                   update_dropped, bp_vars,
                   app_vars, polling_interval_milliseconds, last_known_health,
                   wt_pending_sends>>

PollingLoop ==
    \/ WtUpdateApplicationSettings
    \/ WtStopProcessing
    \/ WtIgnoredCommand
    \/ WtNoCommand
    \/ WtFetchIndicators
    \/ WtFetchParseError
    \/ WtFetchNoData
    \/ WtSend
    \/ WtSleep
    \/ WtBreak

(***************************************************************************)
(* The commands run_buttplug_service_loop is run against in SessionSpec:   *)
(* every CommandToAsyncTasks value, with offsets up to one past the        *)
(* largest registry, and the receiving end of the update channel.          *)
(***************************************************************************)
Speeds == {30, 50}

DeviceOffsets == 0..(MaxBackendIndex + 1)

SessionCommands ==
    {ScanForButtplugDevices, DisconnectButtplug, StartProcessing}
        \cup {VibrateDevice(i, s) : i \in DeviceOffsets, s \in Speeds}
        \cup {StopDevice(i) : i \in DeviceOffsets}

\* A send on bp_task_command_sender (main.rs line 84).
SendToSession ==
    \E command \in SessionCommands :
        /\ Len(bp_task_command_channel) < MaxCommandQueue
        /\ bp_task_command_channel' = Append(bp_task_command_channel, command)
        /\ UNCHANGED <<wt_task_command_channel, update_channel, update_receiver_open,
                       update_dropped,
                       bp_vars, app_vars, wt_vars>>

\* application.rs line 86 as run_buttplug_service_loop sees it: the receiver
\* takes the oldest update off the channel.
UpdateTaken ==
    /\ update_receiver_open
    /\ update_channel # <<>>
    /\ update_channel' = Tail(update_channel)
    /\ UNCHANGED <<wt_task_command_channel, bp_task_command_channel, update_receiver_open,
                   update_dropped,
                   bp_vars, app_vars, wt_vars>>

(***************************************************************************)
(* The state main.rs reaches once Application::new has returned.  Both     *)
(* tasks have been spawned and stand at the top of their loops; main.rs    *)
(* (lines 74-77) and Application::new (lines 46-54) have loaded the same   *)
(* file, and line 57 has sent the initial settings.                        *)
(***************************************************************************)
InitWith(initial_settings) ==
    /\ wt_task_command_channel =
          TrySend(<<>>, MaxCommandQueue, TRUE, UpdateApplicationSettings(initial_settings))
    /\ bp_task_command_channel = <<>>
    /\ update_channel = <<>>
    /\ update_receiver_open = TRUE
    /\ update_dropped = FALSE
    /\ optional_client = None
    /\ connected_devices = <<>>
    /\ bp_pc = "select"
    /\ bp_pending_sends = <<>>
    /\ bp_handled = [type |-> "NoEvent"]
    /\ bp_backend_calls = <<>>
    /\ bp_sent = <<>>
    /\ bp_client_before = None
    /\ buttplug_devices = <<>>
    /\ selected_device_index = None
    /\ is_buttplug_connected = FALSE
    /\ settings = initial_settings
    /\ current_wt_indicators = None
    /\ game_state_snapshot = GameStateSnapshot(None)
    /\ is_war_thunder_connected = FALSE
    /\ is_processing_enabled = FALSE
    /\ app_pc = "drain"
    /\ config_file = FileNotFollowed
    /\ polling_interval_milliseconds = initial_settings.polling_interval_milliseconds
    /\ last_known_health = None
    /\ wt_pc = "try_recv"
    /\ wt_pending_sends = <<>>

Init ==
    /\ \E result \in LoadResults : InitWith(LoadedOrDefault(result))
    /\ bp_spawned = 0

(***************************************************************************)
(* Spec: the program as main.rs wires it.  Nothing ever sends on           *)
(* bp_task_command_sender, so the session loop only ever finds its event   *)
(* branch ready with no client; the Coordinator arms and widgets that need *)
(* an update from the session (lines 139-170 and 252-264 of                *)
(* application.rs) cannot run and are left out of Next.                    *)
(***************************************************************************)
HandleIncomingUpdates ==
    \/ AppLogMessage
    \/ AppWarThunderIndicatorsUpdate
    \/ AppWarThunderConnectionStatus
    \/ AppDrained

Widgets ==
    \/ UiNoInput
    \/ UiLoadConfiguration
    \/ UiToggleProcessing
    \/ UiScanForButtplugDevices
    \/ UiDisconnectButtplug
    \/ UiToggleRuleEnabled
    \/ UiRenameRule
    \/ UiDeleteAction
    \/ UiAddAction

Next ==
    \/ HandleIncomingUpdates
    \/ Widgets
    \/ AppExit
    \/ PollingLoop
    \/ BpNoEvent

Spec == Init /\ [][Next]_vars

(***************************************************************************)
(* SessionSpec: run_buttplug_service_loop with a sender on its command     *)
(* channel, a backend that produces events, and a receiver that takes the  *)
(* updates.                                                                *)
(***************************************************************************)
SessionInit == InitWith(DefaultSettings) /\ bp_spawned = 0

SessionNext ==
    \/ SendToSession
    \/ SessionLoop
    \/ BpSpawnedCallReturns
    \/ BackendConnectionLost
    \/ UpdateTaken
    \/ AppExit

SessionSpec == SessionInit /\ [][SessionNext]_vars


(***************************************************************************)
(* MirrorSpec: the Coordinator and run_buttplug_service_loop together,     *)
(* with the Coordinator's command_sender feeding the session's receiver    *)
(* (every command the Coordinator queues is moved on, in order, to         *)
(* bp_task_command_channel) and a backend that reports each device under   *)
(* one index and one address.  The poller does not run.                    *)
(***************************************************************************)
\* message_passing.rs lines 10-21 over main.rs lines 82-84: the oldest
\* command of the Coordinator's channel arrives at from_gui_receiver.
CommandForwarded ==
    /\ wt_task_command_channel # <<>>
    /\ Len(bp_task_command_channel) < MaxCommandQueue
    /\ bp_task_command_channel' = Append(bp_task_command_channel, Head(wt_task_command_channel))
    /\ wt_task_command_channel' = Tail(wt_task_command_channel)
    /\ UNCHANGED <<update_channel, update_receiver_open, update_dropped, bp_vars, app_vars,
                   wt_vars>>

\* The devices of the backend: index 0 is the hardware at addrA, index 1
\* that at addrB.
PairedHandles == {DeviceHandle(0, "addrA"), DeviceHandle(1, "addrB")}

\* buttplug_connector.rs lines 176-186 for a device of PairedHandles.
PairedDeviceAdded ==
    /\ BpEventDeviceAdded
    /\ bp_handled'.device \in PairedHandles

MirrorSessionLoop ==
    \/ BpScanForButtplugDevices
    \/ BpConnectResult
    \/ BpScanStage
    \/ BpVibrateDevice
    \/ BpStopDevice
    \/ BpDisconnectButtplug
    \/ BpIgnoredCommand
    \/ BpSend
    \/ PairedDeviceAdded
    \/ BpEventDeviceRemoved
    \/ BpEventServerDisconnect
    \/ BpEventPingTimeout
    \/ BpEventOther
    \/ BpEventStreamError
    \/ BpErrorTeardown
    \/ BpClientGone
    \/ BpNoEvent

MirrorCoordinator ==
    \/ AppLogMessage
    \/ AppButtplugConnected
    \/ AppButtplugDisconnected
    \/ AppButtplugDeviceFound
    \/ AppButtplugDeviceLost
    \/ AppButtplugError
    \/ AppDrained
    \/ UiNoInput
    \/ UiScanForButtplugDevices
    \/ UiDisconnectButtplug
    \/ UiSelectDevice
    \/ UiTestVibrate
    \/ UiTestStop

MirrorNext ==
    \/ MirrorCoordinator
    \/ CommandForwarded
    \/ MirrorSessionLoop
    \/ BackendConnectionLost

\* The tasks spawned for the backend calls are not followed here.
MirrorInit == InitWith(DefaultSettings) /\ bp_spawned = -1

MirrorSpec == MirrorInit /\ [][MirrorNext]_vars

(***************************************************************************)
(* PollerSpec: run_war_thunder_polling_loop alone, with a sender that puts *)
(* commands on its queue up to a depth of MaxPollerQueue and a receiver    *)
(* that takes the updates off the update channel.                          *)
(***************************************************************************)
MaxPollerQueue == 2

PollerCommands ==
    {StartProcessing, StopProcessing, ScanForButtplugDevices}
        \cup {UpdateApplicationSettings(s) : s \in FileSettings}

\* A try_send on wt_task_command_sender (main.rs lines 82, 107, 192).
SendToPoller ==
    \E command \in PollerCommands :
        /\ WtReceiverOpen
        /\ Len(wt_task_command_channel) < MaxPollerQueue
        /\ wt_task_command_channel' = Append(wt_task_command_channel, command)
        /\ UNCHANGED <<bp_task_command_channel, update_channel, update_receiver_open,
                       update_dropped, bp_vars, app_vars, wt_vars>>

PollerNext ==
    \/ SendToPoller
    \/ PollingLoop
    \/ UpdateTaken
    \/ AppExit

PollerSpec == Init /\ [][PollerNext]_vars

\* PollerSpec with the poller's task polled whenever it can make a step and
\* the Coordinator draining the update channel every frame (application.rs
\* lines 85-86 and 363) for as long as it lives.
PollerFairSpec ==
    /\ Init
    /\ [][PollerNext]_vars
    /\ WF_vars(PollingLoop)
    /\ WF_vars(UpdateTaken)

(***************************************************************************)
(* WorkersSpec: the two spawned tasks as main.rs wires them (lines         *)
(* 112-132), with a sender on the poller's command channel and a receiver  *)
(* that takes the updates until the window is closed.  Nothing sends on    *)
(* the session's command channel.  The tokio runtime keeps polling a task  *)
(* that can make a step, which is the weak fairness of each loop.          *)
(***************************************************************************)
WorkersNext ==
    \/ SendToPoller
    \/ PollingLoop
    \/ BpNoEvent
    \/ UpdateTaken
    \/ AppExit

WorkersSpec ==
    /\ Init
    /\ [][WorkersNext]_vars
    /\ WF_vars(PollingLoop)
    /\ WF_vars(BpNoEvent)

(***************************************************************************)
(* ConfigSpec: settings.toml and the Coordinator.  The file is drawn from  *)
(* ConfigFiles before main() runs; Startup is main.rs up to the first      *)
(* frame; then the Coordinator's frames edit, save and load the settings,  *)
(* and a receiver takes the commands off the command channel.  The workers *)
(* do not run.                                                             *)
(***************************************************************************)
\* Settings a user's file holds: another name, interval and address, and a
\* rule with every field of its DeviceAction set.
CustomSettings ==
    [application_name |-> "Custom",
     polling_interval_milliseconds |-> 100,
     buttplug_server_address |-> "ws://192.168.0.2:12345",
     event_actions |->
         <<EventActionSetting({"damage"}, TRUE, DeviceAction("Stop", 100, 0))>>]

WithoutKey(document, key) == [k \in DOMAIN document \ {key} |-> document[k]]

\* The documents of the files: complete ones, one with an empty list, one
\* without the event-action list, one whose rule leaves intensity and
\* duration out, one whose intensity is a TOML integer, and one without the
\* polling interval.
ConfigDocuments ==
    LET custom == SerializeSettings(CustomSettings)
        rule == custom.event_actions.value[1].value
        WithDeviceAction(device_action) ==
            [custom EXCEPT !.event_actions =
                TomlArray(<<TomlTable([rule EXCEPT !.device_action =
                                          TomlTable(device_action)])>>)]
    IN {SerializeSettings(DefaultSettings),
        custom,
        SerializeSettings([CustomSettings EXCEPT !.event_actions = <<>>]),
        WithoutKey(custom, "event_actions"),
        WithDeviceAction([action_type |-> TomlString("Vibrate")]),
        WithDeviceAction([action_type |-> TomlString("Vibrate"),
                          intensity |-> TomlInteger(1),
                          duration_milliseconds |-> TomlInteger(250)]),
        WithoutKey(custom, "polling_interval_milliseconds")}

ConfigFiles ==
    {NoConfigDir, AbsentFile, UnwritableDir, UnreadableFile, TextFile(None)}
        \cup {TextFile(Some(document)) : document \in ConfigDocuments}

ConfigInit ==
    /\ wt_task_command_channel = <<>>
    /\ bp_task_command_channel = <<>>
    /\ update_channel = <<>>
    /\ update_receiver_open = TRUE
    /\ update_dropped = FALSE
    /\ optional_client = None
    /\ connected_devices = <<>>
    /\ bp_pc = "select"
    /\ bp_pending_sends = <<>>
    /\ bp_handled = [type |-> "NoEvent"]
    /\ bp_backend_calls = <<>>
    /\ bp_sent = <<>>
    /\ bp_client_before = None
    /\ bp_spawned = 0
    /\ buttplug_devices = <<>>
    /\ selected_device_index = None
    /\ is_buttplug_connected = FALSE
    /\ settings = ApplicationSettings(0, <<>>)
    /\ current_wt_indicators = None
    /\ game_state_snapshot = GameStateSnapshot(None)
    /\ is_war_thunder_connected = FALSE
    /\ is_processing_enabled = FALSE
    /\ app_pc = "start"
    /\ config_file \in ConfigFiles
    /\ polling_interval_milliseconds = 0
    /\ last_known_health = None
    /\ wt_pc = "try_recv"
    /\ wt_pending_sends = <<>>

\* main.rs lines 74-77 and 112-120, then Application::new (application.rs
\* lines 46-75): the file is loaded twice, the poller gets the interval of
\* the first load, the Coordinator the settings of the second.
Startup ==
    /\ app_pc = "start"
    /\ LET main_loaded == LoadConfiguration(config_file)
           new_loaded == LoadConfiguration(main_loaded.file)
           initial_settings == LoadedOrDefault(new_loaded.result)
       IN /\ polling_interval_milliseconds' =
                LoadedOrDefault(main_loaded.result).polling_interval_milliseconds
          /\ settings' = initial_settings
          /\ wt_task_command_channel' =
                TrySend(<<>>, MaxCommandQueue, TRUE,
                        UpdateApplicationSettings(initial_settings))
          /\ config_file' = new_loaded.file
    /\ app_pc' = "drain"
    /\ UNCHANGED <<bp_task_command_channel, update_channel, update_receiver_open,
                   update_dropped, bp_vars, app_bp_vars, app_wt_vars, is_processing_enabled,
                   last_known_health, wt_pc, wt_pending_sends>>

\* war_thunder_connector.rs line 44 as the Coordinator sees it: the receiver
\* takes the oldest command off the channel.
CommandTaken ==
    /\ app_pc # "start"
    /\ wt_task_command_channel # <<>>
    /\ wt_task_command_channel' = Tail(wt_task_command_channel)
    /\ UNCHANGED <<bp_task_command_channel, update_channel, update_receiver_open,
                   update_dropped, bp_vars, app_vars, wt_vars>>

ConfigNext ==
    \/ Startup
    \/ AppDrained
    \/ UiNoInput
    \/ UiSaveConfiguration
    \/ UiLoadConfiguration
    \/ UiToggleRuleEnabled
    \/ UiRenameRule
    \/ UiDeleteAction
    \/ UiAddAction
    \/ CommandTaken

ConfigSpec == ConfigInit /\ [][ConfigNext]_vars

(***************************************************************************)
(* RuleSpec: process_war_thunder_data as handle_incoming_updates calls it. *)
(* The Coordinator holds one rule, the snapshot of an earlier telemetry    *)
(* update and one telemetry update to apply; rule, snapshot and update are *)
(* drawn from the sets below.                                              *)
(***************************************************************************)
RuleNames == {{}, {"damage"}, {"urona"}, {"Vystrel"}}

\* The device action a settings.toml gives whose rule says
\* action_type = "Vibrate", intensity = 1.5, duration_milliseconds = 1000.
LoadedRuleAction ==
    Unwrap(DeserializeDeviceAction(
               TomlTable([action_type |-> TomlString("Vibrate"),
                          intensity |-> TomlFloat(150),
                          duration_milliseconds |-> TomlInteger(1000)])))

\* The action of the default rule, a Stop action, and the action loaded from
\* the file.
RuleActions ==
    {DeviceAction("Vibrate", 30, 1000), DeviceAction("Stop", 30, 1000), LoadedRuleAction}

RuleSettings ==
    LET Rules == {EventActionSetting(name, enabled, device_action) :
                     name \in RuleNames, enabled \in BOOLEAN, device_action \in RuleActions}
    IN {ApplicationSettings(250, <<rule>>) : rule \in Rules}
          \cup {ApplicationSettings(250, <<first, second>>) : first \in Rules, second \in Rules}

\* 94.995, 95.0 and 100.0 percent, or no health field.
RuleHealths == {None} \cup {Some(h) : h \in {94995, 95000, 100000}}

\* The device lists and selections handle_incoming_updates (lines 143-167) and
\* the device list of update() leave behind: nothing known and nothing
\* selected, or a selection inside the list.
RuleDevices ==
    {<<<<>>, None>>,
     <<<<DeviceHandle(0, "addrA")>>, Some(0)>>,
     <<<<DeviceHandle(0, "addrA"), DeviceHandle(1, "addrB")>>, Some(0)>>,
     <<<<DeviceHandle(0, "addrA"), DeviceHandle(1, "addrB")>>, Some(1)>>}

RuleInit ==
    /\ wt_task_command_channel = <<>>
    /\ bp_task_command_channel = <<>>
    /\ \E health \in RuleHealths :
          update_channel = <<WarThunderIndicatorsUpdate(WarThunderIndicators(health))>>
    /\ update_receiver_open = TRUE
    /\ update_dropped = FALSE
    /\ optional_client = None
    /\ connected_devices = <<>>
    /\ bp_pc = "select"
    /\ bp_pending_sends = <<>>
    /\ bp_handled = [type |-> "NoEvent"]
    /\ bp_backend_calls = <<>>
    /\ bp_sent = <<>>
    /\ bp_client_before = None
    /\ bp_spawned = 0
    /\ \E known \in RuleDevices :
          /\ buttplug_devices = known[1]
          /\ selected_device_index = known[2]
    /\ is_buttplug_connected = (buttplug_devices # <<>>)
    /\ settings \in RuleSettings
    /\ current_wt_indicators = None
    /\ \E health \in RuleHealths : game_state_snapshot = GameStateSnapshot(health)
    /\ is_war_thunder_connected = FALSE
    /\ is_processing_enabled \in BOOLEAN
    /\ app_pc = "drain"
    /\ config_file = FileNotFollowed
    /\ polling_interval_milliseconds = 250
    /\ last_known_health = None
    /\ wt_pc = "sleep"
    /\ wt_pending_sends = <<>>

RuleNext == AppWarThunderIndicatorsUpdate

RuleSpec == RuleInit /\ [][RuleNext]_vars

(***************************************************************************)
(* ShutdownSpec: run_buttplug_service_loop with a sender that asks for     *)
(* scans and disconnects and is then dropped, a backend that can lose the  *)
(* connection and reports no devices, and a receiver that takes the        *)
(* updates.  The loop is scheduled fairly: a step of it that can be taken  *)
(* is taken.                                                               *)
(***************************************************************************)
\* A send on bp_task_command_sender while a sender is left.
SendToSessionBeforeDrop ==
    /\ SendersDropped \notin {bp_task_command_channel[k] : k \in DOMAIN bp_task_command_channel}
    /\ Len(bp_task_command_channel) < MaxCommandQueue
    /\ \E command \in {ScanForButtplugDevices, DisconnectButtplug} :
          bp_task_command_channel' = Append(bp_task_command_channel, command)
    /\ UNCHANGED <<wt_task_command_channel, update_channel, update_receiver_open,
                   update_dropped, bp_vars, app_vars, wt_vars>>

\* main.rs lines 84 and 108: bp_task_command_sender and its clone are
\* dropped.
DropSessionSenders ==
    /\ SendersDropped \notin {bp_task_command_channel[k] : k \in DOMAIN bp_task_command_channel}
    /\ bp_task_command_channel' = Append(bp_task_command_channel, SendersDropped)
    /\ UNCHANGED <<wt_task_command_channel, update_channel, update_receiver_open,
                   update_dropped, bp_vars, app_vars, wt_vars>>

ShutdownLoop ==
    \/ BpScanForButtplugDevices
    \/ BpConnectResult
    \/ BpScanStage
    \/ BpDisconnectButtplug
    \/ BpSend
    \/ BpClientGone
    \/ BpNoEvent

ShutdownNext ==
    \/ SendToSessionBeforeDrop
    \/ DropSessionSenders
    \/ ShutdownLoop
    \/ BackendConnectionLost
    \/ UpdateTaken

\* The tasks spawned for the backend calls are not followed here.
ShutdownInit == InitWith(DefaultSettings) /\ bp_spawned = -1

ShutdownSpec ==
    /\ ShutdownInit
    /\ [][ShutdownNext]_vars
    /\ WF_vars(ShutdownLoop)
    /\ WF_vars(UpdateTaken)

(***************************************************************************)
(* DeviceListSpec: the Coordinator's device list under every stream of     *)
(* session updates about three devices, with the user selecting devices.   *)
(* The workers do not run; a sender puts the updates on the update         *)
(* channel.                                                                *)
(***************************************************************************)
ListHandles ==
    {DeviceHandle(0, "addrA"), DeviceHandle(1, "addrB"), DeviceHandle(2, "addrC")}

SessionUpdates ==
    {ButtplugConnected, ButtplugDisconnected}
        \cup {ButtplugDeviceFound(d) : d \in ListHandles}
        \cup {ButtplugDeviceLost(d) : d \in ListHandles}

\* A send on update_sender_async (main.rs line 80).
SendSessionUpdate ==
    \E update \in SessionUpdates :
        /\ update_receiver_open
        /\ Len(update_channel) < MaxUpdateQueue
        /\ update_channel' = Append(update_channel, update)
        /\ UNCHANGED <<wt_task_command_channel, bp_task_command_channel,
                       update_receiver_open, update_dropped, bp_vars, app_vars, wt_vars>>

DeviceListNext ==
    \/ SendSessionUpdate
    \/ AppButtplugConnected
    \/ AppButtplugDisconnected
    \/ AppButtplugDeviceFound
    \/ AppButtplugDeviceLost
    \/ AppDrained
    \/ UiNoInput
    \/ UiSelectDevice

DeviceListInit == InitWith(DefaultSettings) /\ bp_spawned = -1

DeviceListSpec == DeviceListInit /\ [][DeviceListNext]_vars

(***************************************************************************)
(* ActionSpec: one telemetry update from the rule evaluation to the        *)
(* backend.  The Coordinator is as in RuleSpec, with the health 100.0      *)
(* remembered; the session is connected and holds the devices the          *)
(* Coordinator lists; the Coordinator's commands are moved on to the       *)
(* session's receiver.  Nothing else happens: no other command, no backend *)
(* event.  The tasks spawned for the backend calls are not followed.       *)
(***************************************************************************)
ActionInit ==
    /\ wt_task_command_channel = <<>>
    /\ bp_task_command_channel = <<>>
    /\ \E health \in RuleHealths :
          update_channel = <<WarThunderIndicatorsUpdate(WarThunderIndicators(health))>>
    /\ update_receiver_open = TRUE
    /\ update_dropped = FALSE
    /\ \E known \in RuleDevices :
          /\ buttplug_devices = known[1]
          /\ selected_device_index = known[2]
    /\ is_buttplug_connected = (buttplug_devices # <<>>)
    /\ optional_client =
          IF is_buttplug_connected THEN Some([connected |-> TRUE]) ELSE None
    /\ connected_devices = buttplug_devices
    /\ bp_pc = "select"
    /\ bp_pending_sends = <<>>
    /\ bp_handled = [type |-> "NoEvent"]
    /\ bp_backend_calls = <<>>
    /\ bp_sent = <<>>
    /\ bp_client_before = None
    /\ bp_spawned = -1
    /\ settings \in RuleSettings
    /\ current_wt_indicators = None
    /\ game_state_snapshot = GameStateSnapshot(Some(100000))
    /\ is_war_thunder_connected = FALSE
    /\ is_processing_enabled \in BOOLEAN
    /\ app_pc = "drain"
    /\ config_file = FileNotFollowed
    /\ polling_interval_milliseconds = 250
    /\ last_known_health = None
    /\ wt_pc = "sleep"
    /\ wt_pending_sends = <<>>

ActionNext ==
    \/ AppWarThunderIndicatorsUpdate
    \/ CommandForwarded
    \/ BpVibrateDevice
    \/ BpStopDevice

ActionSpec == ActionInit /\ [][ActionNext]_vars

(***************************************************************************)
(* Command routing, checked under Spec.                                    *)
(***************************************************************************)
\* The commands each loop has a handler for (buttplug_connector.rs lines
\* 28-162, war_thunder_connector.rs lines 45-53).
SessionCommandTypes ==
    {"ScanForButtplugDevices", "VibrateDevice", "StopDevice", "DisconnectButtplug"}

PollerCommandTypes == {"UpdateApplicationSettings", "StopProcessing"}

QueuedTypes(queue) == {queue[k].type : k \in DOMAIN queue}

\* C1: every command the Coordinator issues is put on the queue of the worker
\* that handles it: no command of the Device Session Manager is ever on the
\* Telemetry Poller's queue and no command of the poller is ever on the
\* session's queue.
C1_CommandsOnHandlersQueue ==
    /\ QueuedTypes(wt_task_command_channel) \cap SessionCommandTypes = {}
    /\ QueuedTypes(bp_task_command_channel) \cap PollerCommandTypes = {}

(***************************************************************************)
(* Properties of the Device Session Manager, checked under SessionSpec.    *)
(***************************************************************************)
\* The step in which the loop takes a command of the given type.
BpHandles(type) ==
    /\ BpCommandReady
    /\ Head(bp_task_command_channel).type = type
    /\ bp_task_command_channel' = Tail(bp_task_command_channel)

\* The step in which the loop takes a backend event of the given type.
BpHandlesEvent(type) ==
    /\ BpEventBranch
    /\ ClientConnected
    /\ bp_handled'.type = type
    /\ bp_sent' = <<>>
    /\ optional_client' = optional_client
    /\ UNCHANGED channel_vars

\* The updates of the current handler, sent and still to send, in order.
HandlerUpdates ==
    [k \in 1..Len(bp_sent) |-> bp_sent[k].update]
        \o [k \in 1..Len(bp_pending_sends) |-> bp_pending_sends[k].update]

CountOf(updates, update) == Cardinality({k \in DOMAIN updates : updates[k] = update})

\* A send that was performed reached the channel unless the receiver is gone.
SentDeliveredWhileOpen ==
    \A k \in DOMAIN bp_sent : bp_sent[k].delivered \/ ~update_receiver_open

\* C2: the registry never holds two entries with the same backend-assigned
\* device index, whatever DeviceAdded/DeviceRemoved events and commands arrive.
C2_UniqueBackendIndex ==
    \A i, j \in DOMAIN connected_devices :
        i # j => connected_devices[i].index # connected_devices[j].index

\* A DeviceAdded event for an index the registry holds under another handle
\* has been handled, with two devices registered.
C2_Witness ==
    /\ bp_handled.type = "DeviceAdded"
    /\ bp_pending_sends = <<>>
    /\ bp_sent = <<>>
    /\ Len(connected_devices) >= 2
    /\ \E k \in DOMAIN connected_devices :
          /\ connected_devices[k].index = bp_handled.device.index
          /\ connected_devices[k] # bp_handled.device

\* C3: a VibrateDevice command whose device_index is no offset of the registry
\* makes no backend call, sends nothing and changes nothing of the session; the
\* loop is back at its select.
C3_StaleOffsetIsNoOp ==
    [][(/\ BpHandles("VibrateDevice")
        /\ Head(bp_task_command_channel).device_index >= Len(connected_devices))
       => (/\ bp_backend_calls' = <<>>
           /\ bp_pc' = "select"
           /\ bp_pending_sends' = <<>>
           /\ UNCHANGED <<optional_client, connected_devices, update_channel>>)]_vars

\* A connected session with a vibration-capable device registered has handled
\* a VibrateDevice for an offset past its registry.
C3_Witness ==
    /\ bp_handled.type = "VibrateDevice"
    /\ bp_handled.device_index >= Len(connected_devices)
    /\ ClientConnected
    /\ \E k \in DOMAIN connected_devices : connected_devices[k].address = "addrA"
    /\ bp_backend_calls = <<>>
    /\ bp_pc = "select"

\* C4: after a DisconnectButtplug command, taken in any state, the session has
\* no client and an empty registry, and the handler sends ButtplugDisconnected
\* exactly once (delivered unless the receiver is gone); the loop stops only
\* when that send found the update channel closed.
C4_DisconnectIdempotent ==
    bp_handled.type = "DisconnectButtplug" =>
        /\ optional_client = None
        /\ connected_devices = <<>>
        /\ CountOf(HandlerUpdates, ButtplugDisconnected) = 1
        /\ HandlerUpdates[1] = ButtplugDisconnected
        /\ SentDeliveredWhileOpen
        /\ bp_pc \in {"select", "stopped"}
        /\ bp_pc = "stopped" => ~update_receiver_open

\* DisconnectButtplug was handled without a client and both its updates are out.
C4_Witness ==
    /\ bp_handled.type = "DisconnectButtplug"
    /\ bp_client_before = None
    /\ bp_pending_sends = <<>>
    /\ bp_sent = <<Sent(ButtplugDisconnected, TRUE), Sent(LogMessage, TRUE)>>
    /\ bp_pc = "select"

ConnectFailed ==
    /\ bp_handled.type = "ScanForButtplugDevices"
    /\ bp_backend_calls # <<>>
    /\ bp_backend_calls[1] = ConnectCall(FALSE)

\* C5: when the connection attempt of a ScanForButtplugDevices fails, the
\* handler sends ButtplugError and then ButtplugDisconnected, the session has
\* no client, no scan is requested and the loop is back at its select; a
\* connection attempt starts only in the step that takes a
\* ScanForButtplugDevices command while there is no client.
C5_ConnectFailure ==
    /\ [](ConnectFailed =>
            /\ optional_client = None
            /\ bp_pc = "select"
            /\ bp_backend_calls = <<ConnectCall(FALSE)>>
            /\ HandlerUpdates = <<ButtplugError, ButtplugDisconnected>>
            /\ SentDeliveredWhileOpen)
    /\ [][(bp_pc' = "connecting" /\ bp_pc # "connecting")
            => (BpHandles("ScanForButtplugDevices") /\ optional_client = None)]_vars

\* A failed connection attempt whose two updates have reached the channel.
C5_Witness ==
    /\ ConnectFailed
    /\ bp_pending_sends = <<>>
    /\ bp_sent = <<Sent(ButtplugError, TRUE), Sent(ButtplugDisconnected, TRUE)>>

\* C6: every step in which the session loses its client other than by a
\* DisconnectButtplug command leaves the registry empty and has
\* ButtplugDisconnected among the handler's updates.
C6_BackendDisconnectClearsRegistry ==
    [][(/\ IsSome(optional_client)
        /\ optional_client' = None
        /\ ~BpHandles("DisconnectButtplug"))
       => (/\ connected_devices' = <<>>
           /\ CountOf(HandlerUpdates', ButtplugDisconnected) = 1)]_vars

SessionState ==
    IF bp_pc = "connecting" THEN "Connecting"
    ELSE IF IsSome(optional_client) THEN "Connected" ELSE "Uninitialized"

\* The state changes along Uninitialized -> Connecting -> Connected ->
\* Uninitialized (a failed attempt goes back from Connecting).
SessionTransition ==
    SessionState' # SessionState =>
        \/ /\ SessionState = "Uninitialized"
           /\ SessionState' = "Connecting"
           /\ BpHandles("ScanForButtplugDevices")
        \/ /\ SessionState = "Connecting"
           /\ SessionState' = "Connected"
           /\ bp_handled.type = "ScanForButtplugDevices"
           /\ bp_backend_calls' = <<ConnectCall(TRUE)>>
        \/ /\ SessionState = "Connecting"
           /\ SessionState' = "Uninitialized"
           /\ bp_backend_calls' = <<ConnectCall(FALSE)>>
        \/ /\ SessionState = "Connected"
           /\ SessionState' = "Uninitialized"

\* C7 as stated: the transitions above, and the loop never terminates.
C7_LoopNeverTerminates ==
    [][SessionTransition /\ (bp_pc' = "stopped" => bp_pc = "stopped")]_vars

\* C7 as amended: the transitions above, and the loop terminates only in a
\* send of ButtplugDisconnected that finds the update channel closed.
C7_SessionTransitions ==
    [][/\ SessionTransition
       /\ (bp_pc' = "stopped" /\ bp_pc # "stopped")
            => (/\ ~update_receiver_open
                /\ bp_pending_sends # <<>>
                /\ Head(bp_pending_sends).update = ButtplugDisconnected)]_vars

\* A session that was connected is without client again after a backend
\* event, its loop at the select with nothing left to send.
C7_Witness ==
    /\ bp_handled.type \in {"ServerDisconnect", "PingTimeout", "StreamError", "ClientGone"}
    /\ IsSome(bp_client_before)
    /\ optional_client = None
    /\ bp_pc = "select"
    /\ bp_pending_sends = <<>>
    /\ update_receiver_open

VibrateChannels(device) ==
    IF device.scalar_cmd = None THEN {}
    ELSE {k \in DOMAIN Unwrap(device.scalar_cmd) :
            Unwrap(device.scalar_cmd)[k].actuator_type = "Vibrate"}

\* C8: a VibrateDevice command for an offset of the registry of a connected
\* session makes one backend call for that device, with one sub-command per
\* vibration-capable channel, each at the requested speed; with no such
\* channel it makes no call.
C8_OneSubcommandPerVibrator ==
    [][(/\ BpHandles("VibrateDevice")
        /\ ClientConnected
        /\ Head(bp_task_command_channel).device_index < Len(connected_devices))
       => LET command == Head(bp_task_command_channel)
              device == connected_devices[command.device_index + 1]
              channels == VibrateChannels(device)
          IN IF channels = {} THEN bp_backend_calls' = <<>>
             ELSE /\ Len(bp_backend_calls') = 1
                  /\ bp_backend_calls'[1].call = "vibrate"
                  /\ bp_backend_calls'[1].device = device
                  /\ LET subcommands == bp_backend_calls'[1].subcommands
                     IN /\ Len(subcommands) = Cardinality(channels)
                        /\ {subcommands[k].feature_index : k \in DOMAIN subcommands}
                              = {Unwrap(device.scalar_cmd)[k].index : k \in channels}
                        /\ \A k \in DOMAIN subcommands :
                              /\ subcommands[k].scalar = command.speed
                              /\ subcommands[k].actuator_type = "Vibrate"]_vars

\* A vibrate call with two sub-commands went to the second registry entry.
C8_Witness ==
    /\ bp_handled.type = "VibrateDevice"
    /\ bp_handled.device_index = 1
    /\ Len(bp_backend_calls) = 1
    /\ Len(bp_backend_calls[1].subcommands) = 2
    /\ bp_backend_calls[1].subcommands[1].scalar = bp_handled.speed

\* C9: a StopDevice(i) command makes exactly one stop call, to the registry
\* entry at offset i, when the session is connected and the entry exists,
\* whatever the device can do; otherwise it makes no backend call.
C9_StopDevice ==
    [][BpHandles("StopDevice")
       => LET device_index == Head(bp_task_command_channel).device_index
          IN bp_backend_calls' =
                IF ClientConnected /\ device_index < Len(connected_devices)
                THEN <<StopCall(connected_devices[device_index + 1])>>
                ELSE <<>>]_vars

\* A stop call went to a device that has no scalar command at all.
C9_Witness ==
    /\ bp_handled.type = "StopDevice"
    /\ Len(bp_backend_calls) = 1
    /\ bp_backend_calls[1].call = "stop"
    /\ bp_backend_calls[1].device.scalar_cmd = None
    /\ bp_backend_calls[1].device = connected_devices[bp_handled.device_index + 1]

\* C10: a DeviceAdded event is relayed as ButtplugDeviceFound exactly when its
\* index is new to the registry, and then the handle is appended; a
\* DeviceRemoved event is relayed as ButtplugDeviceLost, with the registry's
\* entry, exactly when the registry holds its index, and then the entry goes.
C10_RelayOnChangeOnly ==
    /\ [][BpHandlesEvent("DeviceAdded")
          => LET device == bp_handled'.device
             IN IF \A k \in DOMAIN connected_devices :
                      connected_devices[k].index # device.index
                THEN /\ connected_devices' = Append(connected_devices, device)
                     /\ bp_pending_sends' = <<PendingSend(ButtplugDeviceFound(device), FALSE)>>
                ELSE /\ connected_devices' = connected_devices
                     /\ bp_pending_sends' = <<>>]_vars
    /\ [][BpHandlesEvent("DeviceRemoved")
          => LET index == bp_handled'.index
                 entries == {k \in DOMAIN connected_devices :
                                connected_devices[k].index = index}
             IN /\ \A k \in DOMAIN connected_devices' : connected_devices'[k].index # index
                /\ Len(connected_devices') = Len(connected_devices) - Cardinality(entries)
                /\ IF entries = {} THEN bp_pending_sends' = <<>>
                   ELSE \E k \in entries :
                          bp_pending_sends' =
                              <<PendingSend(ButtplugDeviceLost(connected_devices[k]), FALSE)>>]_vars

\* A DeviceRemoved event for a registered index has been relayed, the other
\* registered device staying.
C10_Witness ==
    /\ bp_handled.type = "DeviceRemoved"
    /\ Len(bp_sent) = 1
    /\ bp_sent[1].delivered
    /\ bp_sent[1].update.type = "ButtplugDeviceLost"
    /\ bp_sent[1].update.device.index = bp_handled.index
    /\ Len(connected_devices) = 1

(***************************************************************************)
(* Properties of the Coordinator and the session together, checked under   *)
(* MirrorSpec.                                                             *)
(***************************************************************************)
\* The session has finished its handler and the Coordinator has applied
\* every update sent so far.
MirrorSettled ==
    /\ update_receiver_open
    /\ update_channel = <<>>
    /\ bp_pending_sends = <<>>
    /\ bp_pc = "select"

\* C11: provided no update was dropped, whenever the Coordinator has applied
\* every update the session has emitted, its device list equals the
\* session's registry, entry by entry.
C11_MirrorEqualsRegistry ==
    (MirrorSettled /\ ~update_dropped) => buttplug_devices = connected_devices

\* The session has handled an actuation command of the Coordinator.
BpHandlesIssued == bp_handled.type \in {"VibrateDevice", "StopDevice"}

\* C12: a VibrateDevice or StopDevice the Coordinator issued for an offset of
\* its list makes the session call the device the Coordinator's list held
\* there (same backend index) or no device at all; never another device.
C12_SameDeviceOrNone ==
    BpHandlesIssued =>
        \A k \in DOMAIN bp_backend_calls :
            bp_backend_calls[k].device.index = bp_handled.target

(***************************************************************************)
(* Queue discipline of the workers, checked under Spec.                    *)
(***************************************************************************)
\* C13: a send on the update queue never waits: whenever the poller or the
\* session loop has an update to send, the send can complete at once, full
\* queue or not (a full queue costs the message, not the sender's progress).
C13_UpdateSendsNeverWait ==
    /\ wt_pending_sends # <<>> => ENABLED WtSend
    /\ bp_pending_sends # <<>> => ENABLED BpSend

(***************************************************************************)
(* The Coordinator's tick, checked under Spec.                             *)
(***************************************************************************)
\* What applying an update does to the Coordinator's fields, for the updates
\* that leave a trace in them.
AppApplied(update) ==
    CASE update.type = "WarThunderIndicatorsUpdate" ->
            current_wt_indicators' = Some(update.indicators)
      [] update.type = "WarThunderConnectionStatus" ->
            is_war_thunder_connected' = update.is_connected
      [] OTHER -> TRUE

\* C14: in every tick the Coordinator takes the queued updates off the queue
\* oldest first, applying each as it is taken, and goes on to render only
\* when the queue is empty; nothing is taken while it renders.
C14_DrainsAllBeforeRender ==
    [][update_receiver_open' =>
          /\ (app_pc = "drain" /\ app_pc' = "ui") => update_channel = <<>>
          /\ Len(update_channel') < Len(update_channel) =>
                /\ app_pc = "drain" /\ app_pc' = "drain"
                /\ update_channel' = Tail(update_channel)
                /\ AppApplied(Head(update_channel))]_vars

\* The Coordinator renders with the queue empty after having applied a
\* snapshot and the ConnectionStatus(true) that followed it.
C14_Witness ==
    /\ app_pc = "ui"
    /\ update_channel = <<>>
    /\ IsSome(current_wt_indicators)
    /\ is_war_thunder_connected

(***************************************************************************)
(* The poller's commands, checked under PollerSpec.                        *)
(***************************************************************************)
\* The interval of the newest UpdateApplicationSettings in a queue.
RECURSIVE NewestInterval(_, _)
NewestInterval(queue, otherwise) ==
    IF queue = <<>> THEN otherwise
    ELSE NewestInterval(
             Tail(queue),
             IF Head(queue).type = "UpdateApplicationSettings"
             THEN Head(queue).settings.polling_interval_milliseconds
             ELSE otherwise)

\* C15: an UpdateSettings that is on the poller's queue when a cycle begins
\* sets the interval of that cycle's sleep, whatever is queued ahead of it:
\* once the cycle has looked at its queue, the interval is that of the newest
\* UpdateSettings that was waiting.
C15_NewIntervalWithinOneCycle ==
    [][(wt_pc = "try_recv" /\ wt_pc' = "fetch") =>
          polling_interval_milliseconds' =
              NewestInterval(wt_task_command_channel, polling_interval_milliseconds)]_vars

(***************************************************************************)
(* Telemetry from the poller to the Coordinator, checked under Spec.       *)
(***************************************************************************)
\* The poller's updates on their way to the Coordinator, oldest first: those
\* on the channel, then those the current cycle has still to send.
WtStream ==
    update_channel \o [k \in DOMAIN wt_pending_sends |-> wt_pending_sends[k].update]

\* C16: a failed cycle followed by a successful one reaches the Coordinator
\* as ConnectionStatus(false), the new snapshot, ConnectionStatus(true), in
\* that order: a ConnectionStatus(true) on its way comes directly after the
\* snapshot of its cycle, ConnectionStatus(false) clears the Coordinator's
\* snapshot, and when the Coordinator's flag goes from false to true the
\* snapshot it holds is the one applied since, which that step leaves alone;
\* once the Coordinator has taken the ConnectionStatus(true) its flag is true
\* and it holds a snapshot.
C16_FailureThenSuccess ==
    [][/\ \A k \in DOMAIN WtStream' :
             (k > 1 /\ WtStream'[k] = WarThunderConnectionStatus(TRUE))
                 => WtStream'[k - 1].type = "WarThunderIndicatorsUpdate"
       /\ (is_war_thunder_connected /\ ~is_war_thunder_connected')
             => current_wt_indicators' = None
       /\ (~is_war_thunder_connected /\ is_war_thunder_connected')
             => /\ IsSome(current_wt_indicators)
                /\ current_wt_indicators' = current_wt_indicators
       /\ (/\ update_receiver_open'
           /\ update_channel # <<>>
           /\ Head(update_channel) = WarThunderConnectionStatus(TRUE)
           /\ update_channel' = Tail(update_channel))
             => is_war_thunder_connected' /\ IsSome(current_wt_indicators')]_vars

\* The ConnectionStatus(false) of a failed cycle and the snapshot of the
\* successful cycle after it wait on the channel, the ConnectionStatus(true)
\* is about to be sent, and the Coordinator still shows the game connected.
C16_Witness ==
    /\ is_war_thunder_connected
    /\ Len(update_channel) = 2
    /\ update_channel[1] = WarThunderConnectionStatus(FALSE)
    /\ update_channel[2].type = "WarThunderIndicatorsUpdate"
    /\ wt_pending_sends = <<PendingSend(WarThunderConnectionStatus(TRUE), TRUE)>>

(***************************************************************************)
(* The poller's cycles, checked under PollerSpec.  A cycle decides at its  *)
(* fetch what it sends; from there to the sleep it performs these sends in *)
(* order.                                                                  *)
(***************************************************************************)
\* The updates the step leaves for the cycle to send.
WtScheduled == [k \in DOMAIN wt_pending_sends' |-> wt_pending_sends'[k].update]

CountOfType(updates, update_type) ==
    Cardinality({k \in DOMAIN updates : updates[k].type = update_type})

\* The step performs the cycle's next send.
WtSendStep == wt_pending_sends # <<>> /\ wt_pending_sends' # wt_pending_sends

\* The update of the cycle's next send gets onto the update channel.
WtDelivers ==
    /\ wt_pending_sends' = Tail(wt_pending_sends)
    /\ update_channel' = Append(update_channel, Head(wt_pending_sends).update)

\* The cycle's next send is the snapshot or the ConnectionStatus(true) of a
\* cycle that parsed its response.
WtSendsOfSuccess ==
    \/ Head(wt_pending_sends).update.type = "WarThunderIndicatorsUpdate"
    \/ Head(wt_pending_sends).update = WarThunderConnectionStatus(TRUE)

\* A cycle that parsed its response is left with exactly one snapshot to
\* send, the one parsed, and exactly one ConnectionStatus(true), whatever the
\* cycle before had seen.
WtSuccessSchedule ==
    WtFetchIndicators =>
        \E indicators \in IndicatorValues :
            /\ last_known_health' = NextKnownHealth(indicators, last_known_health)
            /\ CountOf(WtScheduled, WarThunderIndicatorsUpdate(indicators)) = 1
            /\ CountOfType(WtScheduled, "WarThunderIndicatorsUpdate") = 1
            /\ CountOfType(WtScheduled, "WarThunderConnectionStatus") = 1
            /\ CountOf(WtScheduled, WarThunderConnectionStatus(TRUE)) = 1

\* The sleep is over only when every send of the cycle has been performed.
WtSleepsAfterSends == (wt_pc = "sleep" /\ wt_pc' = "try_recv") => wt_pending_sends = <<>>

\* C17: every cycle whose fetch succeeds and parses emits exactly one
\* snapshot update, carrying the snapshot parsed, whether or not it differs
\* from the one before, and exactly one ConnectionStatus(true): the cycle is
\* left with exactly these to send and each of them gets onto the channel.
C17_SnapshotAndStatusEveryCycle ==
    [][/\ WtSuccessSchedule
       /\ WtSleepsAfterSends
       /\ (WtSendStep /\ WtSendsOfSuccess) => WtDelivers]_vars

\* C17 as amended: the same while the receiver of the update channel is
\* alive; a send that finds the channel closed ends the loop, and the sends
\* left to the cycle are not performed.
C17_SnapshotAndStatusWhileOpen ==
    [][/\ WtSuccessSchedule
       /\ WtSleepsAfterSends
       /\ (WtSendStep /\ WtSendsOfSuccess) =>
              IF update_receiver_open
              THEN WtDelivers
              ELSE wt_pc' = "stopping" /\ wt_pending_sends' = <<>>
                   /\ update_channel' = update_channel]_vars

\* The snapshot and the ConnectionStatus(true) of one cycle are still on the
\* channel while the next cycle is about to send the same snapshot again.
C17_Witness ==
    /\ update_receiver_open
    /\ Len(update_channel) = 2
    /\ update_channel[1].type = "WarThunderIndicatorsUpdate"
    /\ IsSome(update_channel[1].indicators.health_percentage)
    /\ wt_pending_sends = <<PendingSend(update_channel[1], TRUE),
                            PendingSend(WarThunderConnectionStatus(TRUE), TRUE)>>

\* The cycle is about to send the ConnectionStatus(false) of a fetch that
\* brought no data (lines 100, 108) or could not be parsed (line 92).
WtFailureStatusDue ==
    /\ wt_pc = "sleep"
    /\ wt_pending_sends = <<PendingSend(WarThunderConnectionStatus(FALSE), TRUE)>>

\* A cycle that has performed its sends does nothing but sleep and begin the
\* next cycle, with the interval it has.
WtNextCycleFollows ==
    (wt_pc = "sleep" /\ wt_pending_sends = <<>> /\ wt_pc' # wt_pc) =>
        /\ wt_pc' = "try_recv"
        /\ polling_interval_milliseconds' = polling_interval_milliseconds

\* A cycle whose fetch brought no data is left with one ConnectionStatus(false)
\* to send and nothing else.
WtNoDataSchedule ==
    WtFetchNoData => WtScheduled = <<WarThunderConnectionStatus(FALSE)>>

\* C18: a cycle whose fetch fails to connect or returns a status that is not
\* a success emits exactly one ConnectionStatus(false) and nothing else, does
\* not end the loop, and is followed by the next cycle after the interval
\* without another fetch.
C18_FailedFetchCycle ==
    [][/\ WtNoDataSchedule
       /\ WtSleepsAfterSends
       /\ WtNextCycleFollows
       /\ (WtSendStep /\ WtFailureStatusDue) => (WtDelivers /\ wt_pc' = "sleep")]_vars

\* C18 as amended: the same while the receiver of the update channel is
\* alive; the send of ConnectionStatus(false) that finds the channel closed
\* ends the loop.
C18_FailedFetchCycleWhileOpen ==
    [][/\ WtNoDataSchedule
       /\ WtSleepsAfterSends
       /\ WtNextCycleFollows
       /\ (WtSendStep /\ WtFailureStatusDue) =>
              IF update_receiver_open
              THEN WtDelivers /\ wt_pc' = "sleep"
              ELSE wt_pc' = "stopping" /\ update_channel' = update_channel]_vars

\* Two failed cycles in a row have each put their ConnectionStatus(false) on
\* the channel, with nothing between them, and the poller sleeps.
C18_Witness ==
    /\ update_receiver_open
    /\ update_channel =
          <<WarThunderConnectionStatus(FALSE), WarThunderConnectionStatus(FALSE)>>
    /\ wt_pc = "sleep"
    /\ wt_pending_sends = <<>>

\* The cycle is about to send the LogMessage of a response that could not be
\* parsed (line 91).
WtParseErrorLogDue ==
    /\ wt_pc = "sleep"
    /\ wt_pending_sends =
          <<PendingSend(LogMessage, FALSE),
            PendingSend(WarThunderConnectionStatus(FALSE), TRUE)>>

\* A cycle whose response could not be parsed is left with one LogMessage to
\* send and no snapshot.
WtParseErrorSchedule ==
    WtFetchParseError =>
        /\ CountOfType(WtScheduled, "LogMessage") = 1
        /\ CountOfType(WtScheduled, "WarThunderIndicatorsUpdate") = 0
        /\ UNCHANGED last_known_health

\* C19: a cycle whose response body cannot be parsed emits a LogMessage and
\* no snapshot, and the poller goes on to the next cycle: none of the
\* cycle's sends ends the loop.
C19_ParseErrorCycle ==
    [][/\ WtParseErrorSchedule
       /\ WtSleepsAfterSends
       /\ WtNextCycleFollows
       /\ (WtSendStep /\ WtParseErrorLogDue) => (WtDelivers /\ wt_pc' = "sleep")
       /\ (WtSendStep /\ WtFailureStatusDue) => wt_pc' = "sleep"]_vars

\* C19 as amended: the same while the receiver of the update channel is
\* alive; with the channel closed the LogMessage is lost and the send of
\* the ConnectionStatus(false) that follows it ends the loop.
C19_ParseErrorCycleWhileOpen ==
    [][/\ WtParseErrorSchedule
       /\ WtSleepsAfterSends
       /\ WtNextCycleFollows
       /\ (WtSendStep /\ WtParseErrorLogDue) =>
              /\ wt_pc' = "sleep"
              /\ wt_pending_sends' = Tail(wt_pending_sends)
              /\ update_channel' =
                     IF update_receiver_open
                     THEN Append(update_channel, LogMessage)
                     ELSE update_channel
       /\ (WtSendStep /\ WtFailureStatusDue) =>
              wt_pc' = IF update_receiver_open THEN "sleep" ELSE "stopping"]_vars

\* A cycle after one that parsed a snapshot has received a body it cannot
\* parse and is about to send the LogMessage.
C19_Witness ==
    /\ update_receiver_open
    /\ IsSome(last_known_health)
    /\ WtParseErrorLogDue

(***************************************************************************)
(* Rule evaluation, checked under RuleSpec.                                *)
(***************************************************************************)
\* The Coordinator processes telemetry with one enabled Vibrate rule and is
\* about to apply an update that carries a health, having seen one before.
OneVibrateRuleCase ==
    /\ is_processing_enabled
    /\ Len(settings.event_actions) = 1
    /\ settings.event_actions[1].enabled
    /\ settings.event_actions[1].device_action.action_type = "Vibrate"
    /\ update_channel # <<>>
    /\ Head(update_channel).type = "WarThunderIndicatorsUpdate"
    /\ IsSome(Head(update_channel).indicators.health_percentage)
    /\ IsSome(game_state_snapshot.last_health_percentage)

\* C20: with processing enabled and one enabled Vibrate rule, an update whose
\* health is lower than that of the update before by more than the epsilon
\* yields the rule's action exactly once; equal health, or a decrease not
\* above the epsilon, yields no action.
C20_HealthDropFiresOnce ==
    [][(OneVibrateRuleCase /\ AppWarThunderIndicatorsUpdate) =>
          LET current_health == Unwrap(Head(update_channel).indicators.health_percentage)
              last_health == Unwrap(game_state_snapshot.last_health_percentage)
              actions_to_take ==
                  ActionsToPerform(settings.event_actions, Head(update_channel).indicators,
                                   game_state_snapshot)
          IN IF last_health - current_health > HealthEpsilon
             THEN actions_to_take = <<settings.event_actions[1].device_action>>
             ELSE actions_to_take = <<>>]_vars

\* The device actions of the enabled rules, in settings order.
RECURSIVE EnabledActions(_)
EnabledActions(event_actions) ==
    IF event_actions = <<>> THEN <<>>
    ELSE (IF Head(event_actions).enabled THEN <<Head(event_actions).device_action>>
          ELSE <<>>)
         \o EnabledActions(Tail(event_actions))

\* C28: for a telemetry update applied with processing enabled, the actions
\* of the rule evaluation are the device actions of all enabled rules, in
\* settings order and whatever the rules' names, when the health dropped by
\* more than the epsilon, and none otherwise; a disabled rule contributes
\* nothing.
C28_EveryEnabledRuleEvaluated ==
    [][(is_processing_enabled /\ AppWarThunderIndicatorsUpdate) =>
          LET indicators == Head(update_channel).indicators
          IN ActionsToPerform(settings.event_actions, indicators, game_state_snapshot)
                = IF HealthDropped(indicators, game_state_snapshot)
                  THEN EnabledActions(settings.event_actions)
                  ELSE <<>>]_vars

\* The commands one step appended to the command channel.
CommandsIssued ==
    SubSeq(wt_task_command_channel', Len(wt_task_command_channel) + 1,
           Len(wt_task_command_channel'))

\* command is the command of device_action, addressed to device_idx.
CommandOfAction(command, device_action, device_idx) ==
    /\ command.device_index = device_idx
    /\ IF device_action.action_type = "Vibrate"
       THEN command.type = "VibrateDevice" /\ command.speed = device_action.intensity
       ELSE command.type = "StopDevice"

C29_DisabledIssuesNothing ==
    [][(~is_processing_enabled /\ AppWarThunderIndicatorsUpdate) =>
          /\ CommandsIssued = <<>>
          /\ current_wt_indicators' = Some(Head(update_channel).indicators)
          /\ UNCHANGED <<wt_task_command_channel, bp_task_command_channel,
                         game_state_snapshot, settings, app_bp_vars,
                         is_war_thunder_connected, is_processing_enabled>>]_vars

\* An update was applied with processing disabled whose health, against the
\* remembered one, makes the first rule fire, and a device is known; no
\* command is on the channel.
C29_Witness ==
    /\ update_channel = <<>>
    /\ ~is_processing_enabled
    /\ IsSome(current_wt_indicators)
    /\ RuleFires(settings.event_actions[1], Unwrap(current_wt_indicators),
                 game_state_snapshot)
    /\ buttplug_devices # <<>>
    /\ wt_task_command_channel = <<>>

\* C30: after the Coordinator has applied a telemetry update, processing
\* enabled or not, the last health of game_state_snapshot is the health of
\* that update.
C30_SnapshotFollowsUpdate ==
    [][AppWarThunderIndicatorsUpdate =>
          game_state_snapshot'.last_health_percentage
             = Head(update_channel).indicators.health_percentage]_vars

\* C31: every VibrateDevice command a telemetry update makes the Coordinator
\* put on the command channel carries a speed between 0.0 and 1.0, for the
\* default rule, rules as the editor makes them and rules loaded from a file.
C31_IntensityInRange ==
    [][AppWarThunderIndicatorsUpdate =>
          \A k \in DOMAIN CommandsIssued :
              CommandsIssued[k].type = "VibrateDevice" =>
                  (0 <= CommandsIssued[k].speed /\ CommandsIssued[k].speed <= 100)]_vars

(***************************************************************************)
(* Settings changes, checked under Spec.                                   *)
(***************************************************************************)
\* C22: every step that changes the Coordinator's settings sends, on the
\* command channel, an UpdateApplicationSettings command carrying the changed
\* settings (the send is a try_send: it is required when the channel has
\* room).
C22_SettingsChangeSendsUpdate ==
    [][(settings' # settings
          /\ TrySendOk(wt_task_command_channel, MaxCommandQueue, WtReceiverOpen)) =>
          wt_task_command_channel' =
              Append(wt_task_command_channel, UpdateApplicationSettings(settings'))]_vars

(***************************************************************************)
(* Termination of the workers, checked under WorkersSpec.                  *)
(***************************************************************************)
\* run_war_thunder_polling_loop has returned.
WtTerminated == wt_pc = "stopped"

\* run_buttplug_service_loop has returned.
BpTerminated == bp_pc = "stopped"

\* C23: once the receiver of the update channel has been dropped, the
\* telemetry poller eventually terminates and the device session manager
\* eventually terminates.
C23_WorkersTerminateAfterDrop ==
    /\ (~update_receiver_open) ~> WtTerminated
    /\ (~update_receiver_open) ~> BpTerminated

(***************************************************************************)
(* Spawned backend calls, checked under SessionSpec.                       *)
(***************************************************************************)
\* What the session loop holds and what it has queued for the Coordinator.
BpLoopState == <<optional_client, connected_devices, bp_pc, bp_pending_sends, update_channel>>

\* C24: VibrateDevice and StopDevice are fire-and-forget.  While a spawned
\* call is pending the loop is not held up: a DisconnectButtplug at the head
\* of its queue, or its event branch, can be taken at once.  The handler
\* leaves the loop at its select! with the client, the registry and the
\* update channel as they were and nothing to send, and the return of the
\* call, successful or not, changes none of these either.
C24_FireAndForget ==
    /\ [](bp_spawned > 0 =>
            /\ (BpCommandReady /\ Head(bp_task_command_channel).type = "DisconnectButtplug")
                  => ENABLED BpDisconnectButtplug
            /\ (BpEventBranch /\ ClientConnected)
                  => ENABLED BpEventDeviceRemoved)
    /\ [][(BpVibrateDevice \/ BpStopDevice) =>
             (BpLoopState' = BpLoopState /\ bp_pc' = "select" /\ bp_sent' = <<>>)]_vars
    /\ [][bp_spawned' < bp_spawned => BpLoopState' = BpLoopState]_vars

\* A spawned call is pending and the loop has since handled a
\* DisconnectButtplug command.
C24_Witness ==
    /\ bp_spawned > 0
    /\ bp_handled.type = "DisconnectButtplug"
    /\ optional_client = None

(***************************************************************************)
(* settings.toml, checked under ConfigSpec.                                *)
(***************************************************************************)
\* C25: load_configuration() of the file a successful save_configuration()
\* leaves returns settings equal field for field to those saved, and the
\* "load" button pressed on such a file leaves the Coordinator's settings and
\* the file as they are, whether the event-action list is empty or holds
\* rules with every DeviceAction field set.
C25_SaveThenLoad ==
    /\ [][(UiSaveConfiguration /\ SaveConfiguration(config_file, settings).ok) =>
             LoadConfiguration(config_file').result = Some(settings)]_vars
    /\ [][(UiLoadConfiguration /\ config_file = WrittenFile(settings)) =>
             (settings' = settings /\ config_file' = config_file)]_vars

\* Settings with a disabled rule were saved and loaded again: only a load
\* sends settings that hold a disabled rule.
C25_Witness ==
    /\ config_file = WrittenFile(settings)
    /\ Len(settings.event_actions) = 1
    /\ ~settings.event_actions[1].enabled
    /\ wt_task_command_channel = <<UpdateApplicationSettings(settings)>>

\* The file parses, holds the three required fields and no event-action
\* list.
LacksEventActions(file) ==
    /\ file.kind = "file"
    /\ file.content # None
    /\ LET document == Unwrap(file.content)
       IN /\ "event_actions" \notin DOMAIN document
          /\ RequiredField(document, "application_name", DeserializeString) # None
          /\ RequiredField(document, "polling_interval_milliseconds", DeserializeU64) # None
          /\ RequiredField(document, "buttplug_server_address", DeserializeString) # None

\* C26: loading a file that has the other required fields but no
\* event-action list succeeds: the settings loaded, at startup or from the
\* menu, hold the file's three fields and an empty event-action sequence.
C26_MissingListLoadsEmpty ==
    [][((Startup \/ UiLoadConfiguration) /\ LacksEventActions(config_file)) =>
          LET document == Unwrap(config_file.content)
          IN /\ LoadConfiguration(config_file).result # None
             /\ settings'.event_actions = <<>>
             /\ settings'.application_name = document.application_name.value
             /\ settings'.polling_interval_milliseconds =
                   document.polling_interval_milliseconds.value
             /\ settings'.buttplug_server_address =
                   document.buttplug_server_address.value]_vars

\* The program has started from a file without an event-action list and
\* holds that file's settings with no rules.
C26_Witness ==
    /\ app_pc # "start"
    /\ LacksEventActions(config_file)
    /\ settings.event_actions = <<>>
    /\ settings.application_name = "Custom"

\* load_configuration() fails for this file.
LoadFails(file) == LoadConfiguration(file).result = None

\* C27: when loading fails at startup, the Coordinator holds the default
\* settings, the poller the default interval, the initial settings command
\* carries the defaults and both loops stand at their tops with the first
\* frame to come; when the file is absent, load returns the defaults and
\* the file holds them afterwards.
C27_StartupFallsBackToDefaults ==
    [][Startup =>
          /\ LoadFails(config_file) =>
                /\ settings' = DefaultSettings
                /\ polling_interval_milliseconds' =
                      DefaultSettings.polling_interval_milliseconds
                /\ wt_task_command_channel' = <<UpdateApplicationSettings(DefaultSettings)>>
                /\ app_pc' = "drain" /\ wt_pc' = "try_recv" /\ bp_pc' = "select"
          /\ config_file = AbsentFile =>
                /\ LoadConfiguration(config_file).result = Some(DefaultSettings)
                /\ settings' = DefaultSettings
                /\ config_file' = WrittenFile(DefaultSettings)]_vars

\* The program has started with a file that could not be read and holds the
\* defaults.
C27_Witness ==
    /\ app_pc # "start"
    /\ config_file = UnreadableFile
    /\ settings = DefaultSettings
    /\ polling_interval_milliseconds = 250

(***************************************************************************)
(* The poller's damage log, checked under PollerSpec.                      *)
(***************************************************************************)
\* The snapshot the fetch step of a successful cycle has scheduled for
\* sending.
WtFetchedSnapshot ==
    LET k == CHOOSE k \in DOMAIN wt_pending_sends' :
                 wt_pending_sends'[k].update.type = "WarThunderIndicatorsUpdate"
    IN wt_pending_sends'[k].update.indicators

\* C32: in every successful cycle the poller schedules its damage log
\* exactly when the snapshot has a health lower, by more than the epsilon,
\* than the health it remembers, and the health it remembers afterwards is
\* that of the cycle's snapshot, so that the next cycle compares against
\* this one.
C32_DamageLogAgainstPreviousCycle ==
    [][WtFetchIndicators =>
          /\ (\E k \in DOMAIN wt_pending_sends' : wt_pending_sends'[k].update = LogMessage)
                <=> /\ IsSome(WtFetchedSnapshot.health_percentage)
                    /\ IsSome(last_known_health)
                    /\ Unwrap(last_known_health)
                          - Unwrap(WtFetchedSnapshot.health_percentage) > HealthEpsilon
          /\ last_known_health' = WtFetchedSnapshot.health_percentage]_vars

(***************************************************************************)
(* Timed vibration, checked under ActionSpec.                              *)
(***************************************************************************)
\* Every rule of the settings is a Vibrate rule with a duration.
OnlyTimedVibrateRules ==
    \A k \in DOMAIN settings.event_actions :
        /\ settings.event_actions[k].device_action.action_type = "Vibrate"
        /\ settings.event_actions[k].device_action.duration_milliseconds > 0

CountCommands(commands, command_type) ==
    Cardinality({k \in DOMAIN commands : commands[k].type = command_type})

CountActions(actions, action_type) ==
    Cardinality({k \in DOMAIN actions : actions[k].action_type = action_type})

\* C33: a telemetry update puts at most one VibrateDevice on the command
\* channel per fired Vibrate action (exactly one while the channel has room)
\* and a StopDevice only for a fired Stop action; handling VibrateDevice the
\* session makes vibrate calls only and queues nothing; so with settings
\* that hold only Vibrate rules with a duration there never is a StopDevice
\* command on a channel, a StopDevice handled, or a stop call made.
C33_NoStopForTimedVibrate ==
    /\ [][(is_processing_enabled /\ AppWarThunderIndicatorsUpdate) =>
             LET actions_to_take ==
                     ActionsToPerform(settings.event_actions,
                                      Head(update_channel).indicators, game_state_snapshot)
                 room == MaxCommandQueue - Len(wt_task_command_channel)
             IN /\ CountCommands(CommandsIssued, "VibrateDevice")
                      <= CountActions(actions_to_take, "Vibrate")
                /\ CountCommands(CommandsIssued, "StopDevice")
                      <= CountActions(actions_to_take, "Stop")
                /\ (buttplug_devices # <<>> /\ actions_to_take # <<>> /\ room > 0) =>
                       CommandsIssued # <<>>]_vars
    /\ [][BpVibrateDevice =>
             /\ \A k \in DOMAIN bp_backend_calls' : bp_backend_calls'[k].call = "vibrate"
             /\ UNCHANGED <<wt_task_command_channel, bp_pending_sends, update_channel>>
             /\ bp_task_command_channel' = Tail(bp_task_command_channel)]_vars
    /\ [](OnlyTimedVibrateRules =>
             /\ CountCommands(wt_task_command_channel, "StopDevice") = 0
             /\ CountCommands(bp_task_command_channel, "StopDevice") = 0
             /\ bp_handled.type # "StopDevice"
             /\ \A k \in DOMAIN bp_backend_calls : bp_backend_calls[k].call # "stop")

\* The session has handled the VibrateDevice of a fired timed Vibrate rule
\* and made its vibrate call; no command and no update is left anywhere.
C33_Witness ==
    /\ OnlyTimedVibrateRules
    /\ update_channel = <<>>
    /\ wt_task_command_channel = <<>>
    /\ bp_task_command_channel = <<>>
    /\ bp_handled.type = "VibrateDevice"
    /\ Len(bp_backend_calls) = 1
    /\ bp_backend_calls[1].call = "vibrate"

(***************************************************************************)
(* The Coordinator's view of the connection, checked under MirrorSpec.     *)
(***************************************************************************)
\* C34: whenever the Coordinator has drained the update channel and the
\* session loop has nothing left to send, a session that is Uninitialized
\* has the Coordinator's is_buttplug_connected false and its device list
\* empty, and a session that is Connected has the flag true.
C34_ConnectionViewConverges ==
    MirrorSettled =>
        /\ SessionState = "Uninitialized" =>
               (~is_buttplug_connected /\ buttplug_devices = <<>>)
        /\ SessionState = "Connected" => is_buttplug_connected

(***************************************************************************)
(* Shutdown of the session loop, checked under ShutdownSpec.               *)
(***************************************************************************)
\* C35: once every sender of the session's command channel has been
\* dropped and the commands left have been handled, the session loop
\* eventually takes its else branch, and from there it terminates, holding
\* no client.
C35_ClosedChannelShutsDown ==
    /\ BpRecvNone ~> (bp_handled.type = "Else")
    /\ BpRecvNone ~> (BpTerminated /\ optional_client = None)

(***************************************************************************)
(* StopProcessing, checked under PollerFairSpec.                           *)
(***************************************************************************)
\* The poller has left its loop or is leaving it.
WtLeaving == wt_pc \in {"stopping", "stopped"}

\* C36: taking StopProcessing, the poller is left with a Log and a
\* ConnectionStatus(false) to send and leaves its loop; it performs both
\* sends, which reach the update channel while its receiver lives; from
\* then on it never fetches or schedules another update, it terminates, and
\* once terminated it takes no step whatever command is sent: the sender's
\* try_send finds the channel closed.
C36_StopProcessingIsFinal ==
    /\ [][WtStopProcessing =>
             /\ wt_pc' = "stopping"
             /\ wt_pending_sends' = <<PendingSend(LogMessage, FALSE),
                                      PendingSend(WarThunderConnectionStatus(FALSE), FALSE)>>]_vars
    /\ [][(WtLeaving /\ wt_pending_sends' # wt_pending_sends) =>
             /\ wt_pending_sends' = Tail(wt_pending_sends)
             /\ update_receiver_open => WtDelivers]_vars
    /\ [][WtLeaving => (WtLeaving' /\ last_known_health' = last_known_health)]_vars
    /\ [](WtTerminated => (~ENABLED PollingLoop /\ ~ENABLED SendToPoller))
    /\ (wt_pc = "stopping") ~> WtTerminated

\* The poller has terminated while the Coordinator lives: its last two
\* updates are the Log and the ConnectionStatus(false) of StopProcessing.
C36_Witness ==
    /\ WtTerminated
    /\ update_receiver_open
    /\ update_channel = <<LogMessage, WarThunderConnectionStatus(FALSE)>>

(***************************************************************************)
(* The Coordinator's selection, checked under DeviceListSpec.              *)
(***************************************************************************)
\* C37: the Coordinator's selected device index is unset or an offset into
\* its device list, less than the list's length; with an empty list it is
\* unset.
C37_SelectionValid ==
    /\ IsSome(selected_device_index) =>
           Unwrap(selected_device_index) < Len(buttplug_devices)
    /\ buttplug_devices = <<>> => selected_device_index = None

\* The Coordinator has applied the updates sent and lists the devices at
\* addrB and addrC with the second selected.
C37_Witness ==
    /\ update_channel = <<>>
    /\ Len(buttplug_devices) = 2
    /\ buttplug_devices[1].address = "addrB"
    /\ buttplug_devices[2].address = "addrC"
    /\ selected_device_index = Some(1)

\* C38: when the Coordinator applies a DeviceLost for a device of its list
\* other than the selected one, the device at the selected offset afterwards
\* is the device that was at the selected offset before.
C38_SelectionKeepsDevice ==
    [][(/\ AppButtplugDeviceLost
        /\ IsSome(selected_device_index)
        /\ Unwrap(selected_device_index) < Len(buttplug_devices)
        /\ buttplug_devices[Unwrap(selected_device_index) + 1].address
              # Head(update_channel).device.address) =>
          /\ IsSome(selected_device_index')
          /\ Unwrap(selected_device_index') < Len(buttplug_devices')
          /\ buttplug_devices'[Unwrap(selected_device_index') + 1]
                = buttplug_devices[Unwrap(selected_device_index) + 1]]_vars

(***************************************************************************)
(* The order of the session's updates, checked under MirrorSpec.           *)
(***************************************************************************)
\* The updates the Coordinator has still to apply, oldest first: those on
\* the update channel, then those the session is about to send.
UpdatesAhead ==
    update_channel
        \o [i \in 1..Len(bp_pending_sends) |-> bp_pending_sends[i].update]

\* The positions before position i that hold a Connected or a Disconnected.
ConnectionMarksBefore(i) ==
    {j \in 1..(i - 1) :
        UpdatesAhead[j].type \in {"ButtplugConnected", "ButtplugDisconnected"}}

\* Of the Connected and Disconnected updates before position i the newest
\* is a Connected; when there is none, the Coordinator's flag is true, that
\* is, the newest it has applied is a Connected.
ConnectedAt(i) ==
    IF ConnectionMarksBefore(i) = {}
    THEN is_buttplug_connected
    ELSE \A j \in ConnectionMarksBefore(i) :
             (\A k \in ConnectionMarksBefore(i) : k <= j) =>
                 UpdatesAhead[j].type = "ButtplugConnected"

CountDeviceFound(updates) ==
    Cardinality({i \in 1..Len(updates) : updates[i].type = "ButtplugDeviceFound"})

\* C39: whenever the Coordinator's device list is non-empty its
\* backend-connected flag is true, and in the session's update stream a
\* DeviceFound comes after a Connected with no Disconnected in between:
\* every DeviceFound still ahead of the Coordinator is at such a place of
\* the stream, the session emits a DeviceFound only while it holds a
\* client, and while it holds one the end of the stream is such a place.
C39_DevicesOnlyWhileConnected ==
    /\ [](buttplug_devices # <<>> => is_buttplug_connected)
    /\ [](\A i \in 1..Len(UpdatesAhead) :
            UpdatesAhead[i].type = "ButtplugDeviceFound" => ConnectedAt(i))
    /\ [](IsSome(optional_client) => ConnectedAt(Len(UpdatesAhead) + 1))
    /\ [][CountDeviceFound(UpdatesAhead') > CountDeviceFound(UpdatesAhead) =>
            IsSome(optional_client)]_vars

\* The Coordinator lists a device and the session, holding its client, has
\* a further DeviceFound on its way.
C39_Witness ==
    /\ buttplug_devices # <<>>
    /\ is_buttplug_connected
    /\ IsSome(optional_client)
    /\ \E i \in 1..Len(UpdatesAhead) : UpdatesAhead[i].type = "ButtplugDeviceFound"

(***************************************************************************)
(* What the commands of a session holding a client leave alone, checked    *)
(* under SessionSpec.                                                      *)
(***************************************************************************)
\* The session's state, registry and connection attempts are as they were.
SessionUntouched ==
    /\ connected_devices' = connected_devices
    /\ SessionState' = SessionState
    /\ \A k \in 1..Len(bp_backend_calls') : bp_backend_calls'[k].call # "connect"

\* The steps that change the registry: the two device events and the
\* disconnects (the command, the backend's events, the connector's errors).
RegistryStep ==
    \/ BpEventDeviceAdded
    \/ BpEventDeviceRemoved
    \/ BpDisconnectButtplug
    \/ BpEventServerDisconnect
    \/ BpEventPingTimeout
    \/ BpErrorTeardown
    \/ BpClientGone

====
